---- MODULE Spec2Model ----
(***************************************************************************)
(* Calligrapher, the command-line runner of interactive fiction files.     *)
(* The module models the plain-text story interpreter (runTextStory), the  *)
(* engine play loop (runStoryLoop, advanceStory, displayAndChoose,         *)
(* saveGame, replay), the command line (main, parseArgs, runFile, compile, *)
(* watch) of calligrapher/src and the compiler adapter (findInklecate,     *)
(* compileInk, inkToJson) of compiler.ts.  JavaScript strings are TLA+     *)
(* strings; the string methods the code calls are the operators of the     *)
(* first section, computed character by character.                         *)
(***************************************************************************)
EXTENDS Integers, Sequences, FiniteSets, TLC

VARIABLES
    content,      \* runTextStory: the text read from the file
    textStory,    \* runTextStory: the section map `story`
    allSections,  \* runTextStory: section names in order of first appearance
    current,      \* runTextStory: the current-section pointer
    tpc,          \* runTextStory: position of the control flow
    choices,      \* runTextStory: the menu handed to the prompt
    targets,      \* runTextStory: label -> target of the current iteration
    out,          \* what the plain-text interpreter has printed and prompted
    visits,       \* number of loop iterations of the plain-text play loop
    selection,    \* the last answer of the plain-text prompt (0-based), -1 before
    visited,      \* the section whose menu the last answer was given to
    exitCode,     \* the exit code of the process, -1 while it runs
    story,        \* CalligrapherCLI.story: the engine instance, or NoStory
    currentState, \* CalligrapherCLI.currentState
    pc,           \* position of the control flow of the engine play loop
    menu,         \* displayAndChoose: the entries {name, value} of the menu
    saveData,     \* saveGame: the record built before the path is asked
    fs,           \* the save files on disk, by path
    command,      \* the command the running process was started with
    turns,        \* number of advanceStory calls of the running process
    runs,         \* number of processes started so far
    calls,        \* engine calls made so far: Continue and ChooseChoiceIndex
    lastChoose,   \* the last ChooseChoiceIndex call and the entry selected
    savedFrom,    \* by path: the engine the save on disk was taken from
    prompts,      \* number of prompts presented since the last call of Continue
    argv,         \* process.argv.slice(2)
    args,         \* main: the result of parseArgs
    cpc,          \* main: position of the control flow of the process
    platform,     \* os.platform()
    disk,         \* the story, compiler and output files on disk: path -> content
    probes,       \* candidate compiler paths tested with fs.existsSync so far
    chmods,       \* the fs.chmodSync calls so far: path and the error thrown, if any
    spawned,      \* the compiler commands execSync has run so far
    result,       \* the CompilerResult of the last compileInk call
    started,      \* the playback strategies started so far, with their file
    timer,        \* watch: the polling timer is set
    md5Previous,  \* watch: the digest of the watched file at the last change seen
    watchLog      \* watch: the writes and deletions of the watched file and the
                  \* polling ticks since the timer was set, in their order

textVars == <<content, textStory, allSections, current, tpc, choices, targets,
              visits, selection, visited>>

engineVars == <<story, currentState, pc, menu, saveData, fs, command, turns,
                runs, calls, lastChoose, savedFrom, prompts>>

cliVars == <<argv, args, cpc, platform, disk, probes, chmods, spawned, result,
             started, timer, md5Previous, watchLog>>

vars == <<content, textStory, allSections, current, tpc, choices, targets,
          visits, selection, visited, out, exitCode,
          story, currentState, pc, menu, saveData, fs, command, turns,
          runs, calls, lastChoose, savedFrom, prompts,
          argv, args, cpc, platform, disk, probes, chmods, spawned, result,
          started, timer, md5Previous, watchLog>>

-----------------------------------------------------------------------------
(* JavaScript string methods *)

CharAt(s, i) == SubSeq(s, i, i)

\* String.prototype.slice(from) with a 1-based start
StrFrom(s, i) == SubSeq(s, i, Len(s))

\* the characters \s matches and trim() strips, as far as they occur here
WhiteSpace == {" ", "\t", "\r", "\n"}

\* the characters the regular expression `.` does not match
LineTerminators == {"\n", "\r"}

IsSpaceAt(s, i) == CharAt(s, i) \in WhiteSpace

\* number of consecutive white space characters of s from position i on
RECURSIVE SpaceRun(_, _)
SpaceRun(s, i) ==
    IF i > Len(s) \/ ~IsSpaceAt(s, i) THEN 0 ELSE 1 + SpaceRun(s, i + 1)

\* number of consecutive non-space characters of s from position i on
RECURSIVE NonSpaceRun(_, _)
NonSpaceRun(s, i) ==
    IF i > Len(s) \/ IsSpaceAt(s, i) THEN 0 ELSE 1 + NonSpaceRun(s, i + 1)

RECURSIVE TrimEnd(_)
TrimEnd(s) ==
    IF Len(s) > 0 /\ IsSpaceAt(s, Len(s)) THEN TrimEnd(SubSeq(s, 1, Len(s) - 1))
    ELSE s

Trim(s) == TrimEnd(StrFrom(s, SpaceRun(s, 1) + 1))

StartsWith(s, p) == Len(s) >= Len(p) /\ SubSeq(s, 1, Len(p)) = p

Includes(s, p) ==
    \E i \in 1..(Len(s) - Len(p) + 1) : SubSeq(s, i, i + Len(p) - 1) = p

UpperCase == "ABCDEFGHIJKLMNOPQRSTUVWXYZ"
LowerCase == "abcdefghijklmnopqrstuvwxyz"

LowerChar(c) ==
    IF \E i \in 1..Len(UpperCase) : CharAt(UpperCase, i) = c
    THEN CharAt(LowerCase, CHOOSE i \in 1..Len(UpperCase) : CharAt(UpperCase, i) = c)
    ELSE c

RECURSIVE ToLowerCase(_)
ToLowerCase(s) ==
    IF Len(s) = 0 THEN "" ELSE LowerChar(CharAt(s, 1)) \o ToLowerCase(Tail(s))

\* s.replace(/===/g, ''): every match found scanning left to right is removed
RECURSIVE RemoveMarkers(_)
RemoveMarkers(s) ==
    IF Len(s) = 0 THEN ""
    ELSE IF StartsWith(s, "===") THEN RemoveMarkers(Tail(Tail(Tail(s))))
    ELSE CharAt(s, 1) \o RemoveMarkers(Tail(s))

\* s.replace(/[\[\]]/g, '')
RECURSIVE RemoveBrackets(_)
RemoveBrackets(s) ==
    IF Len(s) = 0 THEN ""
    ELSE IF CharAt(s, 1) \in {"[", "]"} THEN RemoveBrackets(Tail(s))
    ELSE CharAt(s, 1) \o RemoveBrackets(Tail(s))

\* s.replace(/^\*\s*/, '')
RemoveLeadingStar(s) ==
    IF StartsWith(s, "*") THEN StrFrom(s, 2 + SpaceRun(s, 2)) ELSE s

\* s.split('\n'): the pieces between the line feeds of s
LineFeeds(s) == {i \in 1..Len(s) : CharAt(s, i) = "\n"}

\* the position of the k-th line feed of s, 0 for k = 0 and Len(s) + 1 behind the last
LineFeedAt(s, k) ==
    IF k = 0 THEN 0
    ELSE IF k > Cardinality(LineFeeds(s)) THEN Len(s) + 1
    ELSE CHOOSE i \in LineFeeds(s) : Cardinality({j \in LineFeeds(s) : j < i}) = k - 1

SplitLines(s) ==
    [k \in 1..(Cardinality(LineFeeds(s)) + 1) |->
        SubSeq(s, LineFeedAt(s, k - 1) + 1, LineFeedAt(s, k) - 1)]

\* lines.join('\n')
RECURSIVE JoinLines(_)
JoinLines(ls) ==
    IF Len(ls) = 0 THEN ""
    ELSE IF Len(ls) = 1 THEN ls[1]
    ELSE ls[1] \o "\n" \o JoinLines(Tail(ls))

IsBlank(line) == Trim(line) = ""
NotBlank(line) == ~IsBlank(line)

-----------------------------------------------------------------------------
(* runTextStory: parsing *)

\* the own keys of a section map, and its lines
EmptyObject == [k \in {} |-> <<>>]

SetKey(obj, k, v) == [x \in (DOMAIN obj) \cup {k} |-> IF x = k THEN v ELSE obj[x]]

\* names every object literal {} inherits from Object.prototype: obj[name] is
\* a truthy value that is neither an array nor a string
ObjectPrototype ==
    {"constructor", "toString", "valueOf", "hasOwnProperty", "isPrototypeOf",
     "propertyIsEnumerable", "toLocaleString", "__proto__"}

\* !story[current]: the lookup finds neither an own nor an inherited property
IsFalsyLookup(obj, k) == k \notin DOMAIN obj /\ k \notin ObjectPrototype


\* line 127 without the trim
SectionNameUntrimmed(line) == RemoveMarkers(line)

\* line 127 without the replace
SectionNameWithMarkers(line) == Trim(line)

\* the name a marker line gives its section
SectionName(line) == Trim(RemoveMarkers(line))

IsMarker(line) == StartsWith(line, "===")

\* one iteration of the parsing loop over the non-blank lines
ParseLine(acc, line) ==
    IF IsMarker(line)
    THEN LET name == SectionName(line)
         IN  [story |-> SetKey(acc.story, name, <<>>),
              currentSection |-> name,
              allSections |-> IF \E i \in 1..Len(acc.allSections) : acc.allSections[i] = name
                              THEN acc.allSections
                              ELSE Append(acc.allSections, name)]
    ELSE IF acc.currentSection # "" /\ Trim(line) # ""
    THEN [acc EXCEPT !.story[acc.currentSection] = Append(@, line)]
    ELSE acc

RECURSIVE ParseLines(_, _)
ParseLines(acc, ls) ==
    IF Len(ls) = 0 THEN acc ELSE ParseLines(ParseLine(acc, Head(ls)), Tail(ls))

\* lines 119-135: split, drop the blank lines, build the section map
ParseStory(text) ==
    ParseLines([story |-> EmptyObject, currentSection |-> "", allSections |-> <<>>],
               SelectSeq(SplitLines(text), NotBlank))

-----------------------------------------------------------------------------
(* runTextStory: choices of a section *)

\* line 152: the lines kept out of the printed text
IsChoiceCandidate(line) ==
    StartsWith(line, "*") \/ Includes(ToLowerCase(line), "[exit]")

NotChoiceCandidate(line) == ~IsChoiceCandidate(line)

\* /^\*?\s*(.+?)\s*->\s*(\S+)/ : a match is fixed by whether \*? takes the
\* star (a), how many characters the first \s* takes (w) and the length of the
\* lazy group (n); the \s* after the group and after the arrow take the whole
\* run of white space, the last group the whole run of non-space characters
AllDots(s, from, n) ==
    \A i \in from..(from + n - 1) : CharAt(s, i) \notin LineTerminators

ArrowMatches(s, a, w, n) ==
    LET g == a + w + 1                     \* first character of the group
        q == g + n                         \* first character after the group
        r == q + SpaceRun(s, q)            \* where the arrow has to be
        t == r + 2 + SpaceRun(s, r + 2)    \* first character of the target
    IN  /\ a = 1 => StartsWith(s, "*")
        /\ w <= SpaceRun(s, a + 1)
        /\ n >= 1 /\ g + n - 1 <= Len(s)
        /\ AllDots(s, g, n)
        /\ r + 1 <= Len(s) /\ SubSeq(s, r, r + 1) = "->"
        /\ NonSpaceRun(s, t) >= 1

ArrowCandidates(s) ==
    {c \in [a : {0, 1}, w : 0..SpaceRun(s, 1) + SpaceRun(s, 2), n : 1..Len(s)] :
        ArrowMatches(s, c.a, c.w, c.n)}

\* backtracking order: \*? greedy, \s* greedy, (.+?) lazy
Preferred(c, d) ==
    \/ c.a > d.a
    \/ c.a = d.a /\ c.w > d.w
    \/ c.a = d.a /\ c.w = d.w /\ c.n <= d.n

HasArrowMatch(s) == ArrowCandidates(s) # {}

ArrowMatch(s) ==
    LET c == CHOOSE x \in ArrowCandidates(s) : \A y \in ArrowCandidates(s) : Preferred(x, y)
        g == c.a + c.w + 1
        q == g + c.n
        r == q + SpaceRun(s, q)
        t == r + 2 + SpaceRun(s, r + 2)
    IN  [text |-> SubSeq(s, g, g + c.n - 1),
         target |-> SubSeq(s, t, t + NonSpaceRun(s, t) - 1)]

\* line 165
ChoiceText(group) == Trim(RemoveBrackets(RemoveLeadingStar(group)))

\* lines 159-170: the (label, target) pairs of the candidate lines that match
RECURSIVE ExtractChoices(_)
ExtractChoices(choiceLines) ==
    IF Len(choiceLines) = 0 THEN <<>>
    ELSE IF HasArrowMatch(Head(choiceLines))
         THEN LET textMatch == ArrowMatch(Head(choiceLines))
              IN  <<[text |-> ChoiceText(textMatch.text), target |-> textMatch.target]>>
                  \o ExtractChoices(Tail(choiceLines))
         ELSE ExtractChoices(Tail(choiceLines))

SectionChoices(lines) == ExtractChoices(SelectSeq(lines, IsChoiceCandidate))

\* targets[choiceText] = target, in the order of the choices
RECURSIVE BuildTargets(_, _)
BuildTargets(obj, cs) ==
    IF Len(cs) = 0 THEN obj
    ELSE BuildTargets(SetKey(obj, Head(cs).text, Head(cs).target), Tail(cs))

ChoiceLabels(cs) == [i \in 1..Len(cs) |-> cs[i].text]


\* line 173 left out
MenuWithoutQuit(cs) == ChoiceLabels(cs)

\* line 173: the menu is the labels followed by Quit
MenuOf(cs) == Append(ChoiceLabels(cs), "Quit")

-----------------------------------------------------------------------------
(* runTextStory: the play loop *)

\* bounds of the plain-text model
MaxLines == 3
MaxVisits == 3

Event(e, t) == [ev |-> e, text |-> t]

PrintEvents(lines) == [i \in 1..Len(lines) |-> Event("print", lines[i])]

\* printFooter
Footer == <<Event("footer", "")>>

\* lines 118-140: read the file, build the section map, start at `start`
TextStart ==
    /\ tpc = "start"
    /\ textStory' = ParseStory(content).story
    /\ allSections' = ParseStory(content).allSections
    /\ out' = Append(out, Event("loaded", ""))
    /\ current' = "start"
    /\ tpc' = "loop"
    /\ UNCHANGED <<content, choices, targets, visits, selection, visited, exitCode>>
    /\ UNCHANGED engineVars
    /\ UNCHANGED cliVars

\* lines 143-146: the section is missing, report it and leave the loop
VisitMissing ==
    /\ IsFalsyLookup(textStory, current)
    /\ out' = out \o <<Event("missing", current)>> \o Footer
    /\ tpc' = "done"
    /\ exitCode' = 0
    /\ UNCHANGED <<choices, targets>>

\* line 151: story[current] is a property inherited from Object.prototype, the
\* for-of over it throws a TypeError that runFile catches (lines 62-65)
VisitInherited ==
    /\ current \notin DOMAIN textStory
    /\ ~IsFalsyLookup(textStory, current)
    /\ out' = out \o <<Event("error", current)>>
    /\ tpc' = "crashed"
    /\ exitCode' = 1
    /\ UNCHANGED <<choices, targets>>

\* lines 148-180 and 190-193: print the text of the section, extract its
\* choices, then prompt with the choices and Quit, or end the loop
VisitSection ==
    /\ current \in DOMAIN textStory
    /\ LET lines == textStory[current]
           cs == SectionChoices(lines)
           printed == PrintEvents(SelectSeq(lines, NotChoiceCandidate))
       IN  /\ targets' = BuildTargets(EmptyObject, cs)
           /\ IF Len(cs) > 0
              THEN /\ choices' = MenuOf(cs)
                   /\ out' = out \o printed \o <<Event("prompt", current)>>
                   /\ tpc' = "prompt"
                   /\ UNCHANGED exitCode
              ELSE /\ choices' = <<>>
                   /\ out' = out \o printed \o <<Event("end", current)>> \o Footer
                   /\ tpc' = "done"
                   /\ exitCode' = 0

\* one iteration of the while loop up to the prompt
TextVisit ==
    /\ tpc = "loop"
    /\ visits < MaxVisits
    /\ visits' = visits + 1
    /\ \/ VisitMissing
       \/ VisitInherited
       \/ VisitSection
    /\ UNCHANGED <<content, textStory, allSections, current, selection, visited>>
    /\ UNCHANGED engineVars
    /\ UNCHANGED cliVars

\* lines 182-189 with the pointer left where it is by line 189
TextSelectStays(sel) ==
    /\ tpc = "prompt"
    /\ sel \in 0..(Len(choices) - 1)
    /\ selection' = sel
    /\ visited' = current
    /\ LET selected == choices[sel + 1]
       IN  IF selected = "Quit"
           THEN /\ tpc' = "done"
                /\ out' = out \o <<Event("select", selected)>> \o Footer
                /\ exitCode' = 0
           ELSE /\ tpc' = "loop"
                /\ out' = Append(out, Event("select", selected))
                /\ UNCHANGED exitCode
    /\ UNCHANGED <<content, textStory, allSections, current, choices, targets, visits>>
    /\ UNCHANGED engineVars
    /\ UNCHANGED cliVars

\* lines 182-189: the prompt answers with the position sel of the selected
\* entry (the code types the answer as a number and indexes the menu with it)
TextSelect(sel) ==
    /\ tpc = "prompt"
    /\ sel \in 0..(Len(choices) - 1)
    /\ selection' = sel
    /\ visited' = current
    /\ LET selected == choices[sel + 1]
       IN  IF selected = "Quit"
           THEN /\ tpc' = "done"
                /\ out' = out \o <<Event("select", selected)>> \o Footer
                /\ exitCode' = 0
                /\ UNCHANGED current
           ELSE /\ tpc' = "loop"
                /\ out' = Append(out, Event("select", selected))
                /\ current' = IF selected \in DOMAIN targets THEN targets[selected]
                              ELSE current
                /\ UNCHANGED exitCode
    /\ UNCHANGED <<content, textStory, allSections, choices, targets, visits>>
    /\ UNCHANGED engineVars
    /\ UNCHANGED cliVars

-----------------------------------------------------------------------------
(* the narrative engine (inkjs Story), as far as the play loop uses it *)

\* the compiled stories: a story is a graph of text units, choice points and
\* an end; a text unit carries its tags and the node that follows it
TaleNodes ==
    [n \in 1..6 |->
       CASE n = 1 -> [kind |-> "text", text |-> "Once upon a time.\n",
                      tags |-> <<"title">>, next |-> 2]
         [] n = 2 -> [kind |-> "text", text |-> "A road forks.\n",
                      tags |-> <<>>, next |-> 3]
         [] n = 3 -> [kind |-> "choice",
                      options |-> <<[text |-> "Go", next |-> 4],
                                    [text |-> "Go", next |-> 5],
                                    [text |-> "Quit", next |-> 6]>>]
         [] n = 4 -> [kind |-> "text", text |-> "Left.\n",
                      tags |-> <<"dialog", "scene">>, next |-> 6]
         [] n = 5 -> [kind |-> "text", text |-> "\n",
                      tags |-> <<>>, next |-> 3]
         [] OTHER -> [kind |-> "end"]]

\* the tags the text units of the tale carry in the yarn
YarnTags ==
    [n \in 1..6 |->
        CASE n = 1 -> <<"dialog">>
          [] n = 2 -> <<"combat", "title">>
          [] n = 5 -> <<"scene">>
          [] OTHER -> <<>>]

\* the yarn: the text units and choices of the tale under other tags
YarnNodes ==
    [n \in 1..6 |->
        IF TaleNodes[n].kind = "text"
        THEN [TaleNodes[n] EXCEPT !.tags = YarnTags[n]]
        ELSE TaleNodes[n]]

\* the stroll: a story without a way back, every path of it reaches the end
StrollNodes ==
    [n \in 1..5 |->
       CASE n = 1 -> [kind |-> "text", text |-> "A gate.\n",
                      tags |-> <<"scene">>, next |-> 2]
         [] n = 2 -> [kind |-> "choice",
                      options |-> <<[text |-> "Enter", next |-> 3],
                                    [text |-> "Leave", next |-> 4]>>]
         [] n = 3 -> [kind |-> "text", text |-> "A garden.\n",
                      tags |-> <<>>, next |-> 4]
         [] n = 4 -> [kind |-> "text", text |-> "Home.\n",
                      tags |-> <<"dialog">>, next |-> 5]
         [] OTHER -> [kind |-> "end"]]

StoryNodes(json) ==
    CASE json = "tale" -> TaleNodes
      [] json = "yarn" -> YarnNodes
      [] json = "stroll" -> StrollNodes
      [] json = "door" ->
           [n \in 1..4 |->
              CASE n = 1 -> [kind |-> "choice",
                             options |-> <<[text |-> "0. Quit", next |-> 2],
                                           [text |-> "S. Save game", next |-> 3]>>]
                [] n = 2 -> [kind |-> "text", text |-> "Bye.\n",
                             tags |-> <<"combat">>, next |-> 4]
                [] n = 3 -> [kind |-> "text", text |-> "Kept.\n",
                             tags |-> <<>>, next |-> 1]
                [] OTHER -> [kind |-> "end"]]
      [] OTHER -> [n \in 1..1 |-> [kind |-> "end"]]

StoryJsons == {"tale", "yarn", "stroll", "door", "blank"}

NoStory == [storyJson |-> "", node |-> 0, tags |-> <<>>]

NodeOf(e) == StoryNodes(e.storyJson)[e.node]

\* new Story(json)
NewStory(json) == [storyJson |-> json, node |-> 1, tags |-> <<>>]

\* story.canContinue
CanContinue(e) == NodeOf(e).kind = "text"

\* story.Continue(): the text it returns and the engine afterwards
ContinueText(e) == NodeOf(e).text
Continue(e) == [e EXCEPT !.node = NodeOf(e).next, !.tags = NodeOf(e).tags]

\* story.currentChoices: empty while the engine can continue
CurrentChoices(e) ==
    IF NodeOf(e).kind = "choice" THEN NodeOf(e).options ELSE <<>>

\* story.currentTags
CurrentTags(e) == e.tags

\* story.ChooseChoiceIndex(i), i counted from 0
ChooseChoiceIndex(e, i) == [e EXCEPT !.node = CurrentChoices(e)[i + 1].next]

\* story.ToJson(), story.state.ToJson() and story.state.LoadJson(state)
ToJson(e) == e.storyJson
StateToJson(e) == [node |-> e.node, tags |-> e.tags]
LoadJson(e, state) == [e EXCEPT !.node = state.node, !.tags = state.tags]

-----------------------------------------------------------------------------
(* advanceStory, displayText *)

\* bounds of the engine model
MaxTurns == 4
MaxRuns == 2


\* lines 216-219 with a while in place of the if
RECURSIVE PullAllText(_)
PullAllText(e) ==
    IF CanContinue(e)
    THEN LET rest == PullAllText(Continue(e))
         IN  [text |-> ContinueText(e) \o rest.text, story |-> rest.story,
              pulled |-> 1 + rest.pulled]
    ELSE [text |-> "", story |-> e, pulled |-> 0]

\* lines 216-219: at most one text unit is pulled
PullText(e) ==
    IF CanContinue(e)
    THEN [text |-> ContinueText(e), story |-> Continue(e), pulled |-> 1]
    ELSE [text |-> "", story |-> e, pulled |-> 0]

\* lines 221-224
CollectChoices(e) == [i \in 1..Len(CurrentChoices(e)) |-> CurrentChoices(e)[i].text]

\* lines 228-233, on the engine as lines 216-219 leave it
StateAfter(text, e) ==
    [currentText |-> text,
     choices |-> CollectChoices(e),
     canContinue |-> CanContinue(e) \/ Len(CurrentChoices(e)) > 0,
     tags |-> CurrentTags(e)]

HasTag(tags, t) == \E i \in 1..Len(tags) : tags[i] = t

\* lines 241-251 with the style taken from the first tag of the list
StyleOfFirstTag(tags) ==
    IF Len(tags) > 0 /\ tags[1] \in {"title", "scene", "combat", "dialog"}
    THEN tags[1]
    ELSE "plain"

\* lines 241-251
StyleOf(tags) ==
    IF HasTag(tags, "title") THEN "title"
    ELSE IF HasTag(tags, "scene") THEN "scene"
    ELSE IF HasTag(tags, "combat") THEN "combat"
    ELSE IF HasTag(tags, "dialog") THEN "dialog"
    ELSE "plain"

\* lines 238-252
DisplayText(text, tags) ==
    IF Trim(text) = "" THEN <<>> ELSE <<Event(StyleOf(tags), text)>>

\* lines 213-236 with the text of the advance before kept, and displayed,
\* when the engine cannot continue
AdvanceStoryShowsAgain(e) ==
    LET p == PullText(e)
        text == IF p.pulled = 0 THEN currentState.currentText ELSE p.text
    IN  [story |-> p.story,
         state |-> StateAfter(text, p.story),
         pulled |-> p.pulled,
         shown |-> DisplayText(text, CurrentTags(p.story))]

\* lines 213-236
AdvanceStory(e) ==
    LET p == PullText(e)
    IN  [story |-> p.story,
         state |-> StateAfter(p.text, p.story),
         pulled |-> p.pulled,
         shown |-> DisplayText(p.text, CurrentTags(p.story))]

-----------------------------------------------------------------------------
(* runStoryLoop, displayAndChoose, pressToContinue *)

NoState == [currentText |-> "", choices |-> <<>>, canContinue |-> FALSE, tags |-> <<>>]
NoChoose == [index |-> -9, available |-> 0, picked |-> 0]
NoFile == <<>>
Paths == {"calligrapher-save.json", "slot.json"}
Timestamps == {"2024-01-01T00:00:00.000Z"}


\* line 205 with the engine's canContinue dropped from the condition
LoopContinuesChoicesOnly(cs) == Len(cs.choices) > 0

\* line 205 with the loop left at a text unit tagged `dialog`
LoopContinuesUnlessDialog(cs) ==
    ~HasTag(cs.tags, "dialog") /\ (cs.canContinue \/ Len(cs.choices) > 0)

\* line 205 with the loop never left
LoopContinuesAlways(cs) == TRUE

\* line 205
LoopContinues(cs) == cs.canContinue \/ Len(cs.choices) > 0


\* line 257 without the position in front of the label
MenuNameWithoutIndex(index, choice) == choice

\* line 257
MenuName(index, choice) == ToString(index + 1) \o ". " \o choice

\* lines 256-262 with the two pushes of lines 261-262 exchanged
BuildMenuSaveFirst(cs) ==
    [i \in 1..Len(cs) |-> [name |-> MenuName(i - 1, cs[i]), value |-> i - 1]]
    \o <<[name |-> "S. Save game", value |-> -2], [name |-> "0. Quit", value |-> -1]>>

\* lines 256-262
BuildMenu(cs) ==
    [i \in 1..Len(cs) |-> [name |-> MenuName(i - 1, cs[i]), value |-> i - 1]]
    \o <<[name |-> "0. Quit", value |-> -1], [name |-> "S. Save game", value |-> -2]>>

\* lines 272-273: choices.find(c => c.name === choice)?.value
FindValue(m, name) ==
    m[CHOOSE i \in 1..Len(m) :
        /\ m[i].name = name
        /\ \A j \in 1..(i - 1) : m[j].name # name].value

\* lines 99-109: load the compiled story and enter the play loop
RunJsonStory(json) ==
    /\ pc = "load"
    /\ command = "run"
    /\ story' = NewStory(json)
    /\ out' = Append(out, Event("header", json))
    /\ pc' = "loop"
    /\ UNCHANGED <<currentState, menu, saveData, fs, command, turns, runs, calls, prompts,
                   lastChoose, savedFrom, exitCode>>
    /\ UNCHANGED textVars
    /\ UNCHANGED cliVars

\* the prompts presented since the last call of Continue, after an
\* advanceStory that called Continue pulled times
PromptsSince(pulled) == IF pulled > 0 THEN 0 ELSE prompts

\* lines 202-210 with 254-270 and without the confirmation of lines 283-285:
\* text is followed by the next advanceStory
LoopIterationWithoutConfirm ==
    /\ pc = "loop"
    /\ turns < MaxTurns
    /\ LET a == AdvanceStory(story)
       IN  /\ story' = a.story
           /\ currentState' = a.state
           /\ turns' = turns + 1
           /\ calls' = [calls EXCEPT !.Continue = @ + a.pulled]
           /\ IF LoopContinues(a.state)
              THEN IF Len(a.state.choices) > 0
                   THEN /\ menu' = BuildMenu(a.state.choices)
                        /\ out' = out \o a.shown \o <<Event("menu", "")>>
                        /\ pc' = "menu"
                        /\ prompts' = PromptsSince(a.pulled) + 1
                        /\ UNCHANGED exitCode
                   ELSE IF a.state.canContinue
                   THEN /\ out' = out \o a.shown
                        /\ pc' = "loop"
                        /\ prompts' = PromptsSince(a.pulled)
                        /\ UNCHANGED <<menu, exitCode>>
                   ELSE /\ out' = out \o a.shown
                        /\ pc' = "loop"
                        /\ prompts' = PromptsSince(a.pulled)
                        /\ UNCHANGED <<menu, exitCode>>
              ELSE /\ out' = out \o a.shown \o Footer
                   /\ pc' = "done"
                   /\ exitCode' = 0
                   /\ prompts' = PromptsSince(a.pulled)
                   /\ UNCHANGED menu
    /\ UNCHANGED <<saveData, fs, command, runs, lastChoose, savedFrom>>
    /\ UNCHANGED textVars
    /\ UNCHANGED cliVars

\* lines 202-210 with 254-270 and 283-294: one iteration of the loop up to
\* the prompt of displayAndChoose, or out of the loop to printFooter
LoopIteration ==
    /\ pc = "loop"
    /\ turns < MaxTurns
    /\ LET a == AdvanceStory(story)
       IN  /\ story' = a.story
           /\ currentState' = a.state
           /\ turns' = turns + 1
           /\ calls' = [calls EXCEPT !.Continue = @ + a.pulled]
           /\ IF LoopContinues(a.state)
              THEN IF Len(a.state.choices) > 0
                   THEN /\ menu' = BuildMenu(a.state.choices)
                        /\ out' = out \o a.shown \o <<Event("menu", "")>>
                        /\ pc' = "menu"
                        /\ prompts' = PromptsSince(a.pulled) + 1
                        /\ UNCHANGED exitCode
                   ELSE IF a.state.canContinue
                   THEN /\ out' = out \o a.shown \o <<Event("confirm", "")>>
                        /\ pc' = "confirm"
                        /\ prompts' = PromptsSince(a.pulled) + 1
                        /\ UNCHANGED <<menu, exitCode>>
                   ELSE /\ out' = out \o a.shown
                        /\ pc' = "loop"
                        /\ prompts' = PromptsSince(a.pulled)
                        /\ UNCHANGED <<menu, exitCode>>
              ELSE /\ out' = out \o a.shown \o Footer
                   /\ pc' = "done"
                   /\ exitCode' = 0
                   /\ prompts' = PromptsSince(a.pulled)
                   /\ UNCHANGED menu
    /\ UNCHANGED <<saveData, fs, command, runs, lastChoose, savedFrom>>
    /\ UNCHANGED textVars
    /\ UNCHANGED cliVars

\* lines 264-282: the prompt answers with the name of the entry at position k
MenuSelect(k) ==
    /\ pc = "menu"
    /\ k \in 1..Len(menu)
    /\ LET selectedIndex == FindValue(menu, menu[k].name)
       IN  CASE selectedIndex = -1 ->
                  /\ out' = out \o <<Event("select", menu[k].name), Event("thanks", "")>>
                  /\ pc' = "exited"
                  /\ exitCode' = 0
                  /\ UNCHANGED <<story, saveData, calls, prompts, lastChoose>>
             [] selectedIndex = -2 ->
                  \E t \in Timestamps :
                  /\ saveData' = [storyJson |-> ToJson(story), state |-> StateToJson(story),
                                  savedAt |-> t, version |-> "1.0"]
                  /\ out' = out \o <<Event("select", menu[k].name), Event("savePath", "")>>
                  /\ pc' = "savePath"
                  /\ prompts' = prompts + 1
                  /\ UNCHANGED <<story, exitCode, calls, lastChoose>>
             [] OTHER ->
                  /\ story' = ChooseChoiceIndex(story, selectedIndex)
                  /\ calls' = [calls EXCEPT !.ChooseChoiceIndex = @ + 1]
                  /\ UNCHANGED prompts
                  /\ lastChoose' = [index |-> selectedIndex,
                                    available |-> Len(CurrentChoices(story)),
                                    picked |-> k]
                  /\ out' = Append(out, Event("select", menu[k].name))
                  /\ pc' = "loop"
                  /\ UNCHANGED <<saveData, exitCode>>
    /\ UNCHANGED <<currentState, menu, fs, command, turns, runs, savedFrom>>
    /\ UNCHANGED textVars
    /\ UNCHANGED cliVars

\* lines 288-300
PressToContinue(cont) ==
    /\ pc = "confirm"
    /\ IF cont
       THEN /\ pc' = "loop"
            /\ UNCHANGED <<out, exitCode>>
       ELSE /\ out' = Append(out, Event("thanks", ""))
            /\ pc' = "exited"
            /\ exitCode' = 0
    /\ UNCHANGED <<story, currentState, menu, saveData, fs, command, turns, runs,
                   calls, prompts, lastChoose, savedFrom>>
    /\ UNCHANGED textVars
    /\ UNCHANGED cliVars

-----------------------------------------------------------------------------
(* saveGame, replay *)

\* JSON.stringify of the save record: its members in the order of line 377-382
Stringify(d) ==
    <<<<"storyJson", d.storyJson>>, <<"state", d.state>>,
      <<"savedAt", d.savedAt>>, <<"version", d.version>>>>

\* JSON.parse(text).key for a key the text has
HasMember(text, key) == \E i \in 1..Len(text) : text[i][1] = key
Member(text, key) == text[CHOOSE i \in 1..Len(text) : text[i][1] = key][2]

\* lines 386-398 with the process ended in the catch of lines 396-398
SaveGameFailureFatal(savePath, written) ==
    /\ pc = "savePath"
    /\ IF written
       THEN /\ fs' = [fs EXCEPT ![savePath] = Stringify(saveData)]
            /\ savedFrom' = [savedFrom EXCEPT ![savePath] = story]
            /\ out' = Append(out, Event("saved", savePath))
            /\ pc' = "loop"
            /\ UNCHANGED exitCode
       ELSE /\ out' = Append(out, Event("saveFailed", savePath))
            /\ pc' = "exited"
            /\ exitCode' = 1
            /\ UNCHANGED <<fs, savedFrom>>
    /\ UNCHANGED <<story, currentState, menu, saveData, command, turns, runs, calls, prompts,
                   lastChoose>>
    /\ UNCHANGED textVars
    /\ UNCHANGED cliVars

\* lines 386-398: the path is answered, the file is written or the write fails
SaveGame(savePath, written) ==
    /\ pc = "savePath"
    /\ IF written
       THEN /\ fs' = [fs EXCEPT ![savePath] = Stringify(saveData)]
            /\ savedFrom' = [savedFrom EXCEPT ![savePath] = story]
            /\ out' = Append(out, Event("saved", savePath))
       ELSE /\ out' = Append(out, Event("saveFailed", savePath))
            /\ UNCHANGED <<fs, savedFrom>>
    /\ pc' = "loop"
    /\ UNCHANGED <<story, currentState, menu, saveData, command, turns, runs, calls, prompts,
                   lastChoose, exitCode>>
    /\ UNCHANGED textVars
    /\ UNCHANGED cliVars


\* lines 360-361 without the LoadJson call
RestoreWithoutState(text) == NewStory(Member(text, "storyJson"))

\* lines 360-361
Restore(text) == LoadJson(NewStory(Member(text, "storyJson")), Member(text, "state"))

\* lines 353-372 in a fresh process, started once the previous one has ended
Replay(filePath) ==
    /\ pc \in {"done", "exited", "failed"}
    /\ runs < MaxRuns
    /\ runs' = runs + 1
    /\ command' = "replay"
    /\ currentState' = NoState
    /\ menu' = <<>>
    /\ saveData' = NoFile
    /\ turns' = 0
    /\ calls' = [Continue |-> 0, ChooseChoiceIndex |-> 0]
    /\ prompts' = 0
    /\ lastChoose' = NoChoose
    /\ IF fs[filePath] # NoFile /\ HasMember(fs[filePath], "storyJson")
                                /\ HasMember(fs[filePath], "state")
       THEN /\ story' = Restore(fs[filePath])
            /\ out' = <<Event("restored", filePath)>>
            /\ pc' = "loop"
            /\ exitCode' = -1
       ELSE /\ story' = NoStory
            /\ out' = <<Event("restoreFailed", filePath)>>
            /\ pc' = "failed"
            /\ exitCode' = 1
    /\ UNCHANGED <<fs, savedFrom>>
    /\ UNCHANGED textVars
    /\ UNCHANGED cliVars

-----------------------------------------------------------------------------
(* paths: path.extname, path.basename, path.join *)

\* s.endsWith(p)
EndsWith(s, p) == Len(p) <= Len(s) /\ SubSeq(s, Len(s) - Len(p) + 1, Len(s)) = p

\* s.lastIndexOf(c) counted from 1, 0 when c does not occur
LastIndexOf(s, c) ==
    IF \E i \in 1..Len(s) : CharAt(s, i) = c
    THEN CHOOSE i \in 1..Len(s) :
            /\ CharAt(s, i) = c
            /\ \A j \in (i + 1)..Len(s) : CharAt(s, j) # c
    ELSE 0

\* path.basename(p) of a path without a trailing separator
BaseName(p) == StrFrom(p, LastIndexOf(p, "/") + 1)

\* path.dirname(p) of an absolute path below the root: what '..' joins to
Parent(p) == SubSeq(p, 1, LastIndexOf(p, "/") - 1)

\* path.extname(p): from the last dot of the base name, empty when the base
\* name has no dot, begins with its only dot, or is '..'
ExtName(p) ==
    LET base == BaseName(p)
        dot == LastIndexOf(base, ".")
    IN  IF dot <= 1 \/ base = ".." THEN "" ELSE StrFrom(base, dot)

\* p.replace(/\.ink$/, '.json')
ReplaceInkSuffix(p) ==
    IF EndsWith(p, ".ink") THEN SubSeq(p, 1, Len(p) - 4) \o ".json" ELSE p

-----------------------------------------------------------------------------
(* parseArgs *)

\* the options object of lines 462-469 with the members set later absent:
\* an absent member reads as undefined, written "" for strings
DefaultOptions ==
    [verbose |-> 0, silent |-> FALSE, color |-> TRUE, noSave |-> FALSE,
     watch |-> FALSE, json |-> TRUE, help |-> FALSE, version |-> FALSE,
     seed |-> "", output |-> "", saveFile |-> ""]

Commands == {"run", "compile", "watch", "replay"}

\* argv[i] counted from 1, undefined (written "") behind the end
ArgAt(av, i) == IF i \in 1..Len(av) THEN av[i] ELSE ""

Digits == {"0", "1", "2", "3", "4", "5", "6", "7", "8", "9"}

RECURSIVE DigitRun(_, _)
DigitRun(s, i) ==
    IF i <= Len(s) /\ CharAt(s, i) \in Digits THEN 1 + DigitRun(s, i + 1) ELSE 0

\* parseInt(s, 10) of an unsigned argument, as its decimal digits; NaN otherwise
ParseInt(s) == IF DigitRun(s, 1) > 0 THEN SubSeq(s, 1, DigitRun(s, 1)) ELSE "NaN"

\* lines 539: the argument is taken for the story file
HasStoryExtension(arg) ==
    \/ EndsWith(arg, ".ink")
    \/ EndsWith(arg, ".json")
    \/ EndsWith(arg, ".txt")
    \/ EndsWith(arg, ".md")

\* lines 473-544: one iteration of the loop over argv, at position st.i
ParseArg(st, av) ==
    LET arg == av[st.i]
        next == [st EXCEPT !.i = @ + 1]
        skip == [st EXCEPT !.i = @ + 2]
    IN  CASE arg \in {"--help", "-h"} ->
               [st EXCEPT !.options.help = TRUE, !.i = Len(av) + 1]
          [] arg \in {"--version", "-V"} ->
               [st EXCEPT !.options.version = TRUE, !.i = Len(av) + 1]
          [] arg \in {"--verbose", "-v"} -> [next EXCEPT !.options.verbose = @ + 1]
          [] arg \in {"--silent", "-s"} -> [next EXCEPT !.options.silent = TRUE]
          [] arg = "--no-color" -> [next EXCEPT !.options.color = FALSE]
          [] arg = "--no-save" -> [next EXCEPT !.options.noSave = TRUE]
          [] arg = "--seed" -> [skip EXCEPT !.options.seed = ParseInt(ArgAt(av, st.i + 1))]
          [] arg \in {"--output", "-o"} -> [skip EXCEPT !.options.output = ArgAt(av, st.i + 1)]
          [] arg \in {"--watch", "-w"} -> [next EXCEPT !.options.watch = TRUE]
          [] arg = "--json" -> [next EXCEPT !.options.json = TRUE]
          [] arg \in {"--save", "-S"} -> [skip EXCEPT !.options.saveFile = ArgAt(av, st.i + 1)]
          [] OTHER ->
               IF StartsWith(arg, "-") THEN next
               ELSE IF st.command = "" /\ arg \in Commands
               THEN [next EXCEPT !.command = arg]
               ELSE IF st.file = "" /\ HasStoryExtension(arg)
               THEN [next EXCEPT !.file = arg]
               ELSE [next EXCEPT !.remaining = Append(@, arg)]

RECURSIVE ParseFrom(_, _)
ParseFrom(st, av) == IF st.i > Len(av) THEN st ELSE ParseFrom(ParseArg(st, av), av)

\* lines 458-548; command null and file undefined are written ""
ParseArgs(av) ==
    LET st == ParseFrom([i |-> 1, command |-> "", file |-> "",
                         options |-> DefaultOptions, remaining |-> <<>>], av)
    IN  [command |-> st.command, file |-> st.file, options |-> st.options,
         remaining |-> st.remaining]

-----------------------------------------------------------------------------
(* the compiler adapter: findInklecate, compileInk, inkToJson *)

\* the character U+FEFF, the byte-order mark
BOM == "﻿"

Platforms == {"linux", "darwin", "win32"}

\* __dirname of the compiled adapter, process.cwd() and os.homedir()
Dirname == "/opt/calligrapher/dist"
Cwd == "/work"
HomeDir == "/home/u"

\* fs.existsSync(p) on the files d
ExistsSync(d, p) == p \in DOMAIN d

\* the files d with the content of p replaced
WriteFile(d, p, text) == [x \in (DOMAIN d) \cup {p} |-> IF x = p THEN text ELSE d[x]]

InklecateName(plat) == IF plat = "win32" THEN "inklecate_win.exe" ELSE "inklecate"

\* lines 24-35 of compiler.ts
PossiblePaths(plat) ==
    <<Parent(Parent(Dirname)) \o "/bin/inklecate",
      Parent(Parent(Dirname)) \o "/bin/" \o InklecateName(plat),
      Cwd \o "/bin/inklecate",
      Cwd \o "/bin/" \o InklecateName(plat),
      Parent(Dirname) \o "/bin/inklecate",
      "/usr/local/bin/inklecate",
      "/usr/bin/inklecate",
      HomeDir \o "/.local/bin/inklecate",
      HomeDir \o "/bin/inklecate",
      HomeDir \o "/.nvm/versions/node/v22.15.0/lib/node_modules/@6i/ink-tools/bin/inklecate/inklecate_win.exe">>

\* lines 49-52 of compiler.ts
LinuxPaths == <<"/usr/bin/inklecate", "/usr/local/bin/inklecate">>


\* the loop of lines 37-46 returning the last existing candidate
LastExisting(d, ps) ==
    IF \E i \in 1..Len(ps) : ExistsSync(d, ps[i])
    THEN CHOOSE i \in 1..Len(ps) :
            /\ ExistsSync(d, ps[i])
            /\ \A j \in (i + 1)..Len(ps) : ~ExistsSync(d, ps[j])
    ELSE 0

\* the loops of lines 37-46 and 53-57: the position of the first candidate
\* of ps that exists, 0 if none does
FirstExisting(d, ps) ==
    IF \E i \in 1..Len(ps) : ExistsSync(d, ps[i])
    THEN CHOOSE i \in 1..Len(ps) :
            /\ ExistsSync(d, ps[i])
            /\ \A j \in 1..(i - 1) : ~ExistsSync(d, ps[j])
    ELSE 0

\* a compiler file of the user who runs the process, and one of another user
UserOwned == "inklecate"
RootOwned == "inklecate (owner root)"

\* lines 40-42 of compiler.ts: fs.chmodSync(p, '755') and the empty catch
\* around it; the call throws on a file the user does not own, the error is
\* caught and dropped
ChmodSync(d, p) ==
    [path |-> p,
     error |-> IF d[p] = RootOwned
               THEN "EPERM: operation not permitted, chmod '" \o p \o "'"
               ELSE ""]

\* lines 20-61 of compiler.ts: the path returned (null written ""), the
\* candidates tested on the way and the calls that make the path executable
FindInklecate(d, plat) ==
    LET ps == PossiblePaths(plat)
        k == FirstExisting(d, ps)
        j == FirstExisting(d, LinuxPaths)
    IN  IF k > 0
        THEN [path |-> ps[k],
              probes |-> SubSeq(ps, 1, k),
              chmods |-> IF plat # "win32" /\ ~EndsWith(ps[k], ".exe")
                         THEN <<ChmodSync(d, ps[k])>> ELSE <<>>]
        ELSE IF plat = "linux"
        THEN [path |-> IF j > 0 THEN LinuxPaths[j] ELSE "",
              probes |-> ps \o (IF j > 0 THEN SubSeq(LinuxPaths, 1, j) ELSE LinuxPaths),
              chmods |-> <<>>]
        ELSE [path |-> "", probes |-> ps, chmods |-> <<>>]

\* lines 132-138 of compiler.ts: the command line handed to execSync
CommandLine(inklecatePath, finalOutput, inputPath) ==
    (IF EndsWith(inklecatePath, ".exe") THEN "/usr/bin/mono " ELSE "")
    \o "\"" \o inklecatePath \o "\" -o \"" \o finalOutput \o "\" \"" \o inputPath \o "\""

\* the compiler executable (inklecate): a run either fails with a diagnostic on
\* its error stream or writes the compiled story, with or without a byte-order
\* mark in front, to its output path; the story it writes is one the engine
\* loads or one of a format version the engine rejects
CompilerDiagnostics == {"ERROR: line 1: syntax"}
CompiledJsons == {"blank"}
RejectedJsons == {"{\"inkVersion\":99}"}
CompilerRuns ==
    {[ok |-> FALSE, text |-> m] : m \in CompilerDiagnostics}
    \cup {[ok |-> TRUE, text |-> b \o j] : b \in {"", BOM}, j \in CompiledJsons}
    \cup {[ok |-> TRUE, text |-> j] : j \in RejectedJsons}

\* the message of the error execSync throws when the command exits non-zero
ExecError(cmd, stderr) == "Command failed: " \o cmd \o "\n" \o stderr

\* no compileInk call has returned yet
NoResult == [success |-> FALSE, outputPath |-> "", error |-> ""]

Failure(error) == [success |-> FALSE, outputPath |-> "", error |-> error]
Success(outputPath) == [success |-> TRUE, outputPath |-> outputPath, error |-> ""]

\* what a call leaves behind besides its result
NoEffects(d) == [disk |-> d, probes |-> <<>>, chmods |-> <<>>, spawned |-> <<>>,
                 log |-> <<>>]


\* lines 149-152 of compiler.ts without the removal of the byte-order mark
KeepBom(text) == text

\* lines 149-152 of compiler.ts: the content written back, if any
StripBom(text) == IF StartsWith(text, BOM) THEN StrFrom(text, Len(BOM) + 1) ELSE text


\* lines 159-161 of compiler.ts with the message of the error dropped
CompilationFailedBare(errorMessage) == "Compilation failed"

\* lines 159-161 of compiler.ts
CompilationFailed(errorMessage) == "Compilation failed: " \o errorMessage

\* lines 140-144 and 154-156 of compiler.ts: the lines printed when verbose
VerboseLog(options, inklecatePath, finalOutput, success) ==
    IF options.verbose
    THEN <<Event("print", "Compiling: " \o options.inputPath),
           Event("print", "Output: " \o finalOutput),
           Event("print", "Compiler: " \o inklecatePath)>>
         \o (IF success THEN <<Event("print", "Compilation successful!")>> ELSE <<>>)
    ELSE <<>>

\* lines 146-152 of compiler.ts: the files after the subprocess has written
\* text to finalOutput and the adapter has read it and written it back
Normalize(d, finalOutput, text) == WriteFile(d, finalOutput, StripBom(text))

\* line 146 of compiler.ts: the command run, the paths it was built from and
\* what the subprocess did: ok with the text it wrote to its output path, or
\* not ok with the text of its error stream
Spawned(cmd, inklecatePath, finalOutput, inputPath, run) ==
    [cmd |-> cmd, compiler |-> inklecatePath, output |-> finalOutput,
     input |-> inputPath, ok |-> run.ok, text |-> run.text]

\* lines 130-162 of compiler.ts: the compiler at inklecatePath is run on the
\* input, the subprocess behaving as run
Execute(options, effects, run, inklecatePath, finalOutput, cmd) ==
    IF ~run.ok
    THEN [result |-> Failure(CompilationFailed(ExecError(cmd, run.text))),
          effects |-> [effects EXCEPT
              !.spawned = <<Spawned(cmd, inklecatePath, finalOutput, options.inputPath, run)>>,
              !.log = VerboseLog(options, inklecatePath, finalOutput, FALSE)]]
    ELSE [result |-> Success(finalOutput),
          effects |-> [effects EXCEPT
              !.spawned = <<Spawned(cmd, inklecatePath, finalOutput, options.inputPath, run)>>,
              !.disk = Normalize(@, finalOutput, run.text),
              !.log = VerboseLog(options, inklecatePath, finalOutput, TRUE)]]

\* lines 127-128 of compiler.ts
FinalOutput(options) ==
    IF options.outputPath # "" THEN options.outputPath
    ELSE ReplaceInkSuffix(options.inputPath)


\* lines 118-162 of compiler.ts without the test of lines 119-125
LocatedUnchecked(options, d, run, found) ==
    Execute(options,
            [NoEffects(d) EXCEPT !.probes = found.probes, !.chmods = found.chmods],
            run, found.path, FinalOutput(options),
            CommandLine(found.path, FinalOutput(options), options.inputPath))

\* lines 118-162 of compiler.ts: after the lookup found
Located(options, d, run, found) ==
    IF found.path = ""
    THEN [result |-> Failure("inklecate compiler not found."),
          effects |-> [NoEffects(d) EXCEPT !.probes = found.probes]]
    ELSE Execute(options,
                 [NoEffects(d) EXCEPT !.probes = found.probes, !.chmods = found.chmods],
                 run, found.path, FinalOutput(options),
                 CommandLine(found.path, FinalOutput(options), options.inputPath))


\* lines 106-163 of compiler.ts with the compiler looked up and run before
\* the input is tested
CompileInkLookupFirst(options, d, plat, run) ==
    Located(options, d, run, FindInklecate(d, plat))

\* lines 106-163 of compiler.ts on the files d, the subprocess behaving as run
CompileInk(options, d, plat, run) ==
    IF ~ExistsSync(d, options.inputPath)
    THEN [result |-> Failure("Input file not found: " \o options.inputPath),
          effects |-> NoEffects(d)]
    ELSE IF ToLowerCase(ExtName(options.inputPath)) # ".ink"
    THEN [result |-> Failure("Expected .ink file, got: "
                             \o ToLowerCase(ExtName(options.inputPath))),
          effects |-> NoEffects(d)]
    ELSE Located(options, d, run, FindInklecate(d, plat))

\* lines 167-174 of compiler.ts: the result is reported and thrown, or returned
Thrown(c) ==
    [result |-> c.result,
     effects |-> IF ~c.result.success
                    /\ Includes(c.result.error, "inklecate compiler not found")
                 THEN [c.effects EXCEPT !.log = @ \o
                          <<Event("error", c.result.error), Event("error", "install")>>]
                 ELSE c.effects,
     thrown |-> IF c.result.success THEN "" ELSE c.result.error]

\* lines 165-175 of compiler.ts: thrown is the message of the error thrown
InkToJson(inputPath, outputPath, d, plat, run) ==
    Thrown(CompileInk([inputPath |-> inputPath, outputPath |-> outputPath,
                       verbose |-> FALSE], d, plat, run))

-----------------------------------------------------------------------------
(* the files the plain-text interpreter is run on *)

TextLines ==
    {"=== start ===", "===a", "===", "hi", "* note",
     "* [go] -> a", "* [go] -> start", "*Quit->a",
     "[Exit] -> a", "* x -> constructor"}

RECURSIVE SeqsUpTo(_, _)
SeqsUpTo(S, n) ==
    IF n = 0 THEN {<<>>}
    ELSE SeqsUpTo(S, n - 1) \cup
         {Append(q, x) : q \in {r \in SeqsUpTo(S, n - 1) : Len(r) = n - 1}, x \in S}

\* the scenario story: `start` with a text and two choices, `left` with a text
ScenarioTexts == {"hi", "A fork."}
ScenarioLabels == {"Go left", "right", "go"}

ScenarioFile(t1, l1, l2, t2) ==
    JoinLines(<<"=== start ===", t1, "", "* [" \o l1 \o "] -> left",
                "* [" \o l2 \o "] -> right", "  ", "=== left ===", t2, "">>)

ScenarioLabelPairs == {p \in ScenarioLabels \X ScenarioLabels : p[1] # p[2]}

ScenarioFiles ==
    {ScenarioFile(t1, p[1], p[2], t2) :
        t1 \in ScenarioTexts, t2 \in ScenarioTexts, p \in ScenarioLabelPairs}

TextFiles == {JoinLines(ls) : ls \in SeqsUpTo(TextLines, MaxLines)} \cup ScenarioFiles

TextIdle ==
    /\ content = ""
    /\ textStory = EmptyObject
    /\ allSections = <<>>
    /\ current = ""
    /\ tpc = "off"
    /\ choices = <<>>
    /\ targets = EmptyObject
    /\ visits = 0
    /\ selection = -1
    /\ visited = ""

EngineIdle ==
    /\ story = NoStory
    /\ currentState = NoState
    /\ pc = "off"
    /\ menu = <<>>
    /\ saveData = NoFile
    /\ fs = [p \in Paths |-> NoFile]
    /\ command = ""
    /\ turns = 0
    /\ runs = 0
    /\ calls = [Continue |-> 0, ChooseChoiceIndex |-> 0]
    /\ prompts = 0
    /\ lastChoose = NoChoose
    /\ savedFrom = [p \in Paths |-> NoStory]

\* no command line has been parsed, no compiler looked up
CliIdle ==
    /\ argv = <<>>
    /\ args = ParseArgs(<<>>)
    /\ cpc = "off"
    /\ platform = "linux"
    /\ disk = EmptyObject
    /\ probes = <<>>
    /\ chmods = <<>>
    /\ spawned = <<>>
    /\ result = NoResult
    /\ started = <<>>
    /\ timer = FALSE
    /\ md5Previous = ""
    /\ watchLog = <<>>

\* calligrapher <file.txt>: the process is about to enter runTextStory
TextInit ==
    /\ content \in TextFiles
    /\ textStory = EmptyObject
    /\ allSections = <<>>
    /\ current = ""
    /\ tpc = "start"
    /\ choices = <<>>
    /\ targets = EmptyObject
    /\ visits = 0
    /\ selection = -1
    /\ visited = ""
    /\ out = <<>>
    /\ exitCode = -1
    /\ EngineIdle
    /\ CliIdle

TextNext ==
    \/ TextStart
    \/ TextVisit
    \/ \E sel \in 0..(Len(choices) - 1) : TextSelect(sel)

SpecText == TextInit /\ [][TextNext]_vars

\* the steps of TextStart and of TextVisit, told by the position of the
\* interpreter and the count of iterations
EntersLoop == tpc = "start" /\ tpc' = "loop"
Iterates == tpc = "loop" /\ visits < MaxVisits /\ visits' = visits + 1

\* the interpreter runs whenever it does not wait for the player, and the
\* player answers every prompt
SpecTextLive ==
    /\ TextInit
    /\ [][TextNext]_vars
    /\ WF_tpc(EntersLoop)
    /\ WF_visits(Iterates)
    /\ WF_vars(\E sel \in 0..(Len(choices) - 1) : TextSelect(sel))

\* calligrapher <file.json>: a new CalligrapherCLI about to enter runJsonStory
EngineInit ==
    /\ TextIdle
    /\ out = <<>>
    /\ exitCode = -1
    /\ story = NoStory
    /\ currentState = NoState
    /\ pc = "load"
    /\ menu = <<>>
    /\ saveData = NoFile
    /\ fs = [p \in Paths |-> NoFile]
    /\ command = "run"
    /\ turns = 0
    /\ runs = 1
    /\ calls = [Continue |-> 0, ChooseChoiceIndex |-> 0]
    /\ prompts = 0
    /\ lastChoose = NoChoose
    /\ savedFrom = [p \in Paths |-> NoStory]
    /\ CliIdle

EngineNext ==
    \/ \E json \in StoryJsons : RunJsonStory(json)
    \/ LoopIteration
    \/ \E k \in 1..Len(menu) : MenuSelect(k)
    \/ \E cont \in BOOLEAN : PressToContinue(cont)
    \/ \E savePath \in Paths, written \in BOOLEAN : SaveGame(savePath, written)
    \/ \E filePath \in Paths : Replay(filePath)

SpecEngine == EngineInit /\ [][EngineNext]_vars

-----------------------------------------------------------------------------
(* the engine play loop with a player who answers every prompt *)

\* the nodes the engine can stand at after one Continue or one choice at n
NextNodes(json, n) ==
    LET node == StoryNodes(json)[n]
    IN  CASE node.kind = "text" -> {node.next}
          [] node.kind = "choice" -> {node.options[i].next : i \in 1..Len(node.options)}
          [] OTHER -> {}

\* the nodes the engine can stand at k steps after the start
RECURSIVE NodesAfter(_, _)
NodesAfter(json, k) ==
    IF k = 0 THEN {1}
    ELSE UNION {NextNodes(json, n) : n \in NodesAfter(json, k - 1)}

\* every sequence of continues and choices of the story reaches its end:
\* none is as long as the story has nodes
IsFiniteStory(json) == NodesAfter(json, Len(StoryNodes(json))) = {}

FiniteStoryJsons == {json \in StoryJsons : IsFiniteStory(json)}

\* bound: the number of times the player selects Save game in a session
MaxSaves == 1

SavesSelected == Cardinality({i \in 1..Len(out) : out[i].ev = "savePath"})

\* the player answers the menu: never with Quit, with Save game no more
\* than MaxSaves times
PlayerSelects(k) ==
    /\ pc = "menu"
    /\ k \in 1..Len(menu)
    /\ FindValue(menu, menu[k].name) # -1
    /\ FindValue(menu, menu[k].name) = -2 => SavesSelected < MaxSaves
    /\ MenuSelect(k)

\* the player confirms
PlayerConfirms == PressToContinue(TRUE)

\* the player answers the path prompt
PlayerNamesPath == \E savePath \in Paths, written \in BOOLEAN : SaveGame(savePath, written)

\* the session loads its story
LoadsFiniteStory == \E json \in FiniteStoryJsons : RunJsonStory(json)

LiveEngineNext ==
    \/ LoadsFiniteStory
    \/ LoopIteration
    \/ \E k \in 1..Len(menu) : PlayerSelects(k)
    \/ PlayerConfirms
    \/ PlayerNamesPath
    \/ \E filePath \in Paths : Replay(filePath)

\* the process runs whenever it does not wait for the player, and the player
\* answers every prompt; a save may be replayed once the process has ended
SpecEngineLive ==
    /\ EngineInit
    /\ [][LiveEngineNext]_vars
    /\ WF_vars(LoadsFiniteStory)
    /\ WF_vars(LoopIteration)
    /\ WF_vars(\E k \in 1..Len(menu) : PlayerSelects(k))
    /\ WF_vars(PlayerConfirms)
    /\ WF_vars(PlayerNamesPath)

-----------------------------------------------------------------------------
(* main, runFile, runInkStory, runJsonStory, compile, watch *)

Strategy(kind, file) == [kind |-> kind, file |-> file]

\* the effects of a call of the compiler adapter become those of the process
Apply(effects) ==
    /\ disk' = effects.disk
    /\ probes' = probes \o effects.probes
    /\ chmods' = chmods \o effects.chmods
    /\ spawned' = spawned \o effects.spawned

\* line 119 of cli.ts: runTextStory is entered and reads the file from d
EnterTextStory(filePath, d) ==
    /\ content' = d[filePath]
    /\ tpc' = "start"
    /\ UNCHANGED <<textStory, allSections, current, choices, targets, visits,
                   selection, visited>>

\* line 100 of cli.ts: runJsonStory is entered
EnterJsonStory ==
    /\ pc' = "load"
    /\ command' = "run"
    /\ UNCHANGED <<story, currentState, menu, saveData, fs, turns, runs, calls, prompts,
                   lastChoose, savedFrom>>

\* printHeader
Header(title) == <<Event("header", title)>>

\* lines 7-22 of index.ts: the arguments are parsed, version and help answered
MainParse ==
    /\ cpc = "parse"
    /\ LET parsed == ParseArgs(argv)
       IN  /\ args' = parsed
           /\ IF parsed.options.version
              THEN /\ out' = Append(out, Event("version", "Calligrapher v1.0.0"))
                   /\ exitCode' = 0
                   /\ cpc' = "exit"
              ELSE IF parsed.options.help
              THEN /\ out' = Append(out, Event("help", ""))
                   /\ exitCode' = 0
                   /\ cpc' = "exit"
              ELSE /\ cpc' = "dispatch"
                   /\ UNCHANGED <<out, exitCode>>
    /\ UNCHANGED <<md5Previous, watchLog>>
    /\ UNCHANGED <<argv, platform, disk, probes, chmods, spawned, result, started, timer>>
    /\ UNCHANGED <<textVars, engineVars>>

\* line 24 of index.ts
IsCompileCommand == args.command = "compile" /\ EndsWith(args.file, ".ink")


\* lines 308-311 of cli.ts without the exit of line 310
CompileExitAlwaysZero(thrown) == 0

\* lines 305-311 of cli.ts: the exit code the compile command ends with
CompileExit(thrown) == IF thrown = "" THEN 0 ELSE 1

\* lines 303-311 of cli.ts: what inkToJson did becomes visible
Compiled(filePath, c) ==
    /\ Apply(c.effects)
    /\ result' = c.result
    /\ out' = out \o <<Event("print", "Compiling: " \o filePath)>> \o c.effects.log
              \o (IF c.thrown = ""
                  THEN <<Event("print", "Compiled: " \o c.result.outputPath)>>
                  ELSE <<Event("error", "Compilation failed: " \o c.thrown)>>)
    /\ exitCode' = CompileExit(c.thrown)

\* lines 24-25 of index.ts and 302-312 of cli.ts: the compile command
MainCompile(run) ==
    /\ cpc = "dispatch"
    /\ IsCompileCommand
    /\ Compiled(args.file, InkToJson(args.file, "", disk, platform, run))
    /\ cpc' = "exit"
    /\ UNCHANGED <<md5Previous, watchLog>>
    /\ UNCHANGED <<argv, args, platform, started, timer>>
    /\ UNCHANGED <<textVars, engineVars>>

\* the text of an ink source
InkSource == "=== start ===\nhi\n* [go] -> end\n=== end ===\nbye"

\* lines 401-404 of cli.ts: the MD5 digest of the content, written as a term;
\* two contents of the watched file have one digest only if they are equal
Md5(text) == "md5(" \o text \o ")"

\* lines 26-27 of index.ts and 314-328 of cli.ts: the watch command up to
\* the start of the polling timer
MainWatch ==
    /\ cpc = "dispatch"
    /\ ~IsCompileCommand
    /\ args.command = "watch"
    /\ IF ~ExistsSync(disk, args.file)
       THEN /\ out' = out \o <<Event("print", "Watching: " \o args.file),
                               Event("error", "File not found: " \o args.file)>>
            /\ exitCode' = 1
            /\ cpc' = "exit"
            /\ UNCHANGED <<timer, md5Previous>>
       ELSE /\ out' = out \o <<Event("print", "Watching: " \o args.file),
                               Event("print", "Initial MD5: " \o Md5(disk[args.file])),
                               Event("print", "Waiting for changes...")>>
            /\ md5Previous' = Md5(disk[args.file])
            /\ timer' = TRUE
            /\ cpc' = "watching"
            /\ UNCHANGED exitCode
    /\ UNCHANGED watchLog
    /\ UNCHANGED <<argv, args, platform, disk, probes, chmods, spawned, result, started>>
    /\ UNCHANGED <<textVars, engineVars>>

\* bound of the watch model: writes, deletions and ticks while watching
MaxWatchEvents == 4

\* what an editor writes into the watched file
WatchedTexts == {InkSource, "=== start ===\nedited"}

WatchEvent(ev, text) == [ev |-> ev, text |-> text]

\* the watched file is written between two ticks
WatchedFileWritten(text) ==
    /\ cpc = "watching"
    /\ Len(watchLog) < MaxWatchEvents
    /\ disk' = WriteFile(disk, args.file, text)
    /\ watchLog' = Append(watchLog, WatchEvent("write", text))
    /\ UNCHANGED <<argv, args, cpc, platform, probes, chmods, spawned, result, started,
                   timer, md5Previous, out, exitCode>>
    /\ UNCHANGED <<textVars, engineVars>>

\* the watched file is removed between two ticks
WatchedFileDeleted ==
    /\ cpc = "watching"
    /\ Len(watchLog) < MaxWatchEvents
    /\ ExistsSync(disk, args.file)
    /\ disk' = [p \in DOMAIN disk \ {args.file} |-> disk[p]]
    /\ watchLog' = Append(watchLog, WatchEvent("delete", ""))
    /\ UNCHANGED <<argv, args, cpc, platform, probes, chmods, spawned, result, started,
                   timer, md5Previous, out, exitCode>>
    /\ UNCHANGED <<textVars, engineVars>>


\* lines 331-332 of cli.ts without the assignment of line 332
KeepMd5Previous(previous, md5Current) == previous

\* lines 331-332 of cli.ts: the digest the next tick compares with
NextMd5Previous(previous, md5Current) == md5Current

\* line 329 of cli.ts: readFileSync throws in the timer callback, nothing
\* catches the error and the process ends with the exit code of an uncaught
\* exception
TickThrows ==
    /\ out' = Append(out, Event("uncaught", "ENOENT: no such file or directory"))
    /\ exitCode' = 1
    /\ cpc' = "exit"
    /\ timer' = FALSE
    /\ watchLog' = Append(watchLog, WatchEvent("tick", "throws"))
    /\ UNCHANGED <<disk, probes, chmods, spawned, result, md5Previous>>

\* lines 331-342 of cli.ts: the digest differs, the file is compiled into c
TickRecompiles(md5Current, c) ==
    /\ md5Previous' = NextMd5Previous(md5Previous, md5Current)
    /\ Apply(c.effects)
    /\ result' = c.result
    /\ out' = out \o <<Event("print", "=== File changed, recompiling ===")>>
              \o c.effects.log
              \o (IF c.thrown = ""
                  THEN <<Event("print", "Compiled: " \o c.result.outputPath)>>
                  ELSE <<Event("error", "Compilation failed: " \o c.thrown)>>)
              \o <<Event("print", "Waiting for changes...")>>
    /\ watchLog' = Append(watchLog, WatchEvent("tick", "recompile"))
    /\ UNCHANGED <<exitCode, cpc, timer>>

\* lines 329-331 of cli.ts: the digest is the one seen before
TickIdle ==
    /\ watchLog' = Append(watchLog, WatchEvent("tick", "idle"))
    /\ UNCHANGED <<disk, probes, chmods, spawned, result, md5Previous, out, exitCode,
                   cpc, timer>>

\* lines 328-344 of cli.ts: one run of the timer callback
WatchTick(run) ==
    /\ cpc = "watching"
    /\ timer
    /\ Len(watchLog) < MaxWatchEvents
    /\ IF ~ExistsSync(disk, args.file)
       THEN TickThrows
       ELSE IF Md5(disk[args.file]) # md5Previous
       THEN TickRecompiles(Md5(disk[args.file]),
                           InkToJson(args.file, "", disk, platform, run))
       ELSE TickIdle
    /\ UNCHANGED <<argv, args, platform, started>>
    /\ UNCHANGED <<textVars, engineVars>>

\* lines 346-350 of cli.ts: the interrupt signal
WatchInterrupt ==
    /\ cpc = "watching"
    /\ timer' = FALSE
    /\ out' = Append(out, Event("print", "Stopping watch..."))
    /\ exitCode' = 0
    /\ cpc' = "exit"
    /\ UNCHANGED <<md5Previous, watchLog>>
    /\ UNCHANGED <<argv, args, platform, disk, probes, chmods, spawned, result, started>>
    /\ UNCHANGED <<textVars, engineVars>>

\* JSON.parse of the text of a file: the members of the object it holds, or
\* not valid; a compiled story is an object without the members of a save
Document(members) == [valid |-> TRUE, members |-> members]
JsonParse(text) ==
    CASE text = "{\"storyJson\":\"tale\",\"state\":3}" ->
           Document(<<<<"storyJson", "tale">>, <<"state", [node |-> 3, tags |-> <<>>]>>>>)
      [] text = "{\"storyJson\":\"tale\",\"state\":9}" ->
           Document(<<<<"storyJson", "tale">>, <<"state", [node |-> 9, tags |-> <<>>]>>>>)
      [] text = "{\"storyJson\":\"{\",\"state\":3}" ->
           Document(<<<<"storyJson", "{">>, <<"state", [node |-> 3, tags |-> <<>>]>>>>)
      [] text = "{\"storyJson\":\"tale\"}" ->
           Document(<<<<"storyJson", "tale">>>>)
      [] text = "{\"state\":3}" ->
           Document(<<<<"state", [node |-> 3, tags |-> <<>>]>>>>)
      [] text = "{}" -> Document(<<>>)
      [] text \in StoryJsons -> Document(<<>>)
      [] OTHER -> [valid |-> FALSE, members |-> <<>>]

\* new Story(saveData.storyJson) returns: the member is the text of a
\* compiled story
StoryLoads(members) ==
    HasMember(members, "storyJson") /\ Member(members, "storyJson") \in StoryJsons

\* story.state.LoadJson(saveData.state) returns: the member is a state of the
\* story
StateApplies(members) ==
    /\ HasMember(members, "state")
    /\ Member(members, "state").node \in DOMAIN StoryNodes(Member(members, "storyJson"))

\* lines 357-361 of cli.ts run without an exception: the file is read, its
\* text is parsed, the engine is built and takes the state
Restorable(d, filePath) ==
    /\ filePath \in DOMAIN d
    /\ JsonParse(d[filePath]).valid
    /\ StoryLoads(JsonParse(d[filePath]).members)
    /\ StateApplies(JsonParse(d[filePath]).members)

\* lines 368-371 of cli.ts without the exit of line 370: replay returns and
\* main ends
ReplayFailedReturns(filePath) ==
    /\ out' = out \o <<Event("restoring", filePath), Event("restoreFailed", filePath)>>
    /\ exitCode' = 0
    /\ cpc' = "exit"
    /\ UNCHANGED <<story, pc, started>>

\* lines 368-371 of cli.ts: the failure is reported and the process exits
ReplayFailed(filePath) ==
    /\ out' = out \o <<Event("restoring", filePath), Event("restoreFailed", filePath)>>
    /\ exitCode' = 1
    /\ cpc' = "exit"
    /\ UNCHANGED <<story, pc, started>>

\* lines 360-365 of cli.ts: the engine is restored and the play loop entered
Restored(filePath, members) ==
    /\ story' = Restore(members)
    /\ out' = out \o <<Event("restoring", filePath), Event("restored", filePath)>>
    /\ pc' = "loop"
    /\ cpc' = "playing"
    /\ started' = Append(started, Strategy("replay", filePath))
    /\ UNCHANGED exitCode

\* lines 28-29 of index.ts and 353-372 of cli.ts: the replay command
MainReplay ==
    /\ cpc = "dispatch"
    /\ ~IsCompileCommand
    /\ args.command = "replay"
    /\ IF Restorable(disk, args.file)
       THEN Restored(args.file, JsonParse(disk[args.file]).members)
       ELSE ReplayFailed(args.file)
    /\ command' = "replay"
    /\ UNCHANGED <<currentState, menu, saveData, fs, turns, runs, calls, prompts, lastChoose,
                   savedFrom>>
    /\ UNCHANGED <<md5Previous, watchLog>>
    /\ UNCHANGED <<argv, args, platform, disk, probes, chmods, spawned, result, timer>>
    /\ UNCHANGED textVars

\* lines 30-31 of index.ts: the branch that calls runFile
IsRunFile ==
    /\ cpc = "dispatch"
    /\ ~IsCompileCommand
    /\ args.command \notin {"watch", "replay"}
    /\ args.file # ""

\* lines 32-34 of index.ts: no branch applies
MainHelp ==
    /\ cpc = "dispatch"
    /\ ~IsCompileCommand
    /\ args.command \notin {"watch", "replay"}
    /\ args.file = ""
    /\ out' = Append(out, Event("help", ""))
    /\ exitCode' = 1
    /\ cpc' = "exit"
    /\ UNCHANGED <<md5Previous, watchLog>>
    /\ UNCHANGED <<argv, args, platform, disk, probes, chmods, spawned, result, started,
                   timer>>
    /\ UNCHANGED <<textVars, engineVars>>

\* line 46 of cli.ts
FileExtension(filePath) == ToLowerCase(ExtName(filePath))


\* line 52 of cli.ts with the second extension left out
IsTextExtensionTxtOnly(ext) == ext = ".txt"

\* line 52 of cli.ts
IsTextExtension(ext) == ext = ".txt" \/ ext = ".md"


\* lines 40-44 and 62-65 of cli.ts with the error reported and the process
\* ended with code 0
RunFileMissingExitsZero ==
    /\ IsRunFile
    /\ ~ExistsSync(disk, args.file)
    /\ out' = out \o Header("Calligrapher")
              \o <<Event("error", "File not found: " \o args.file)>>
    /\ exitCode' = 0
    /\ cpc' = "exit"
    /\ UNCHANGED <<md5Previous, watchLog>>
    /\ UNCHANGED <<argv, args, platform, disk, probes, chmods, spawned, result, started,
                   timer>>
    /\ UNCHANGED <<textVars, engineVars>>

\* lines 40-44 and 62-65 of cli.ts: the file does not exist
RunFileMissing ==
    /\ IsRunFile
    /\ ~ExistsSync(disk, args.file)
    /\ out' = out \o Header("Calligrapher")
              \o <<Event("error", "File not found: " \o args.file)>>
    /\ exitCode' = 1
    /\ cpc' = "exit"
    /\ UNCHANGED <<md5Previous, watchLog>>
    /\ UNCHANGED <<argv, args, platform, disk, probes, chmods, spawned, result, started,
                   timer>>
    /\ UNCHANGED <<textVars, engineVars>>

\* lines 54-60 of cli.ts: no strategy for the extension
RunFileUnsupported ==
    /\ IsRunFile
    /\ ExistsSync(disk, args.file)
    /\ FileExtension(args.file) \notin {".ink", ".json"}
    /\ ~IsTextExtension(FileExtension(args.file))
    /\ out' = out \o Header("Calligrapher")
              \o <<Event("warning", "Unsupported file format: " \o FileExtension(args.file)),
                   Event("print", "Supported formats:"),
                   Event("print", "  - .ink  Ink source files (requires inklecate)"),
                   Event("print", "  - .json Compiled Ink stories"),
                   Event("print", "  - .txt  Simple text adventures")>>
    /\ exitCode' = 0
    /\ cpc' = "exit"
    /\ UNCHANGED <<md5Previous, watchLog>>
    /\ UNCHANGED <<argv, args, platform, disk, probes, chmods, spawned, result, started,
                   timer>>
    /\ UNCHANGED <<textVars, engineVars>>

\* lines 50-51 of cli.ts: engine playback of the file
RunFileJson ==
    /\ IsRunFile
    /\ ExistsSync(disk, args.file)
    /\ FileExtension(args.file) = ".json"
    /\ out' = out \o Header("Calligrapher")
    /\ started' = Append(started, Strategy("json", args.file))
    /\ EnterJsonStory
    /\ cpc' = "playing"
    /\ UNCHANGED <<md5Previous, watchLog>>
    /\ UNCHANGED <<argv, args, platform, disk, probes, chmods, spawned, result, timer,
                   exitCode>>
    /\ UNCHANGED textVars

\* lines 52-53 of cli.ts with the polling timer set when the watch option
\* is given
RunFileTextWatching ==
    /\ IsRunFile
    /\ ExistsSync(disk, args.file)
    /\ FileExtension(args.file) # ".ink"
    /\ FileExtension(args.file) # ".json"
    /\ IsTextExtension(FileExtension(args.file))
    /\ out' = out \o Header("Calligrapher")
    /\ started' = Append(started, Strategy("text", args.file))
    /\ EnterTextStory(args.file, disk)
    /\ cpc' = "playing"
    /\ timer' = args.options.watch
    /\ UNCHANGED <<md5Previous, watchLog>>
    /\ UNCHANGED <<argv, args, platform, disk, probes, chmods, spawned, result, exitCode>>
    /\ UNCHANGED engineVars

\* lines 52-53 of cli.ts: the plain-text interpreter on the file
RunFileText ==
    /\ IsRunFile
    /\ ExistsSync(disk, args.file)
    /\ FileExtension(args.file) # ".ink"
    /\ FileExtension(args.file) # ".json"
    /\ IsTextExtension(FileExtension(args.file))
    /\ out' = out \o Header("Calligrapher")
    /\ started' = Append(started, Strategy("text", args.file))
    /\ EnterTextStory(args.file, disk)
    /\ cpc' = "playing"
    /\ UNCHANGED <<md5Previous, watchLog>>
    /\ UNCHANGED <<argv, args, platform, disk, probes, chmods, spawned, result, timer,
                   exitCode>>
    /\ UNCHANGED engineVars


\* lines 69-71 of cli.ts after printHeader
InkHeader(filePath) ==
    Header("Calligrapher")
    \o (IF args.options.verbose > 0
        THEN <<Event("print", "Compiling: " \o filePath)>> ELSE <<>>)

\* lines 74-81 of cli.ts: no compiler, the plain-text interpreter plays the file
InkWithoutCompiler(filePath, found) ==
    /\ probes' = probes \o found.probes
    /\ out' = out \o InkHeader(filePath)
              \o <<Event("warning", "inklecate compiler not found!"),
                   Event("print", "For now, using basic text story mode...")>>
    /\ started' = started \o <<Strategy("ink", filePath), Strategy("text", filePath)>>
    /\ EnterTextStory(filePath, disk)
    /\ UNCHANGED <<disk, chmods, spawned, result>>
    /\ UNCHANGED engineVars

\* lines 83-96 of cli.ts: the source was compiled into c, engine playback of
\* the compiled story is entered or the plain-text interpreter plays the file
InkCompiled(filePath, jsonPath, found, c) ==
    /\ Apply([c.effects EXCEPT !.probes = found.probes \o @,
                               !.chmods = found.chmods \o @])
    /\ result' = c.result
    /\ IF c.result.success
       THEN /\ out' = out \o InkHeader(filePath) \o c.effects.log
            /\ started' = started \o <<Strategy("ink", filePath),
                                        Strategy("json", jsonPath)>>
            /\ EnterJsonStory
            /\ UNCHANGED textVars
       ELSE /\ out' = out \o InkHeader(filePath) \o c.effects.log
                      \o <<Event("error", "Compilation failed: " \o c.result.error),
                           Event("print", "Falling back to text mode...")>>
            /\ started' = started \o <<Strategy("ink", filePath),
                                        Strategy("text", filePath)>>
            /\ EnterTextStory(filePath, c.effects.disk)
            /\ UNCHANGED engineVars

\* lines 73-96 of cli.ts after the lookup found
InkLocated(filePath, found, run) ==
    IF found.path = ""
    THEN InkWithoutCompiler(filePath, found)
    ELSE InkCompiled(filePath, ReplaceInkSuffix(filePath), found,
                     CompileInk([inputPath |-> filePath,
                                 outputPath |-> ReplaceInkSuffix(filePath),
                                 verbose |-> args.options.verbose > 0],
                                disk, platform, run))

\* lines 48-49 and 68-97 of cli.ts: compile the source, then enter engine
\* playback of the compiled story or fall back to the plain-text interpreter
RunInkStory(run) ==
    /\ IsRunFile
    /\ ExistsSync(disk, args.file)
    /\ FileExtension(args.file) = ".ink"
    /\ InkLocated(args.file, FindInklecate(disk, platform), run)
    /\ cpc' = "playing"
    /\ UNCHANGED <<md5Previous, watchLog>>
    /\ UNCHANGED <<argv, args, platform, timer, exitCode>>

\* lines 101-104 of cli.ts: the text handed to the engine
SliceBom(jsonContent) ==
    IF StartsWith(jsonContent, BOM) THEN StrFrom(jsonContent, Len(BOM) + 1)
    ELSE jsonContent

\* the file runJsonStory was entered with
JsonPath == started[Len(started)].file

\* lines 101-109 of cli.ts: the file holds a compiled story
LoadStory ==
    /\ cpc = "playing"
    /\ pc = "load"
    /\ \E json \in StoryJsons :
          /\ json = SliceBom(disk[JsonPath])
          /\ RunJsonStory(json)

\* lines 105 and 113-115 of cli.ts: the engine rejects the text of the file;
\* the error ends the run (lines 62-65) or, below runInkStory, is reported as
\* a failed compilation and followed by the plain-text interpreter (92-96)
LoadStoryFails ==
    /\ cpc = "playing"
    /\ pc = "load"
    /\ SliceBom(disk[JsonPath]) \notin StoryJsons
    /\ pc' = "failed"
    /\ IF started[1].kind = "ink"
       THEN /\ out' = out \o <<Event("error", "Compilation failed: Failed to load story"),
                               Event("print", "Falling back to text mode...")>>
            /\ started' = Append(started, Strategy("text", started[1].file))
            /\ EnterTextStory(started[1].file, disk)
            /\ UNCHANGED <<exitCode, cpc>>
       ELSE /\ out' = Append(out, Event("error", "Failed to load story"))
            /\ exitCode' = 1
            /\ cpc' = "exit"
            /\ UNCHANGED started
            /\ UNCHANGED textVars
    /\ UNCHANGED <<story, currentState, menu, saveData, fs, command, turns, runs, calls, prompts,
                   lastChoose, savedFrom>>
    /\ UNCHANGED <<md5Previous, watchLog>>
    /\ UNCHANGED <<argv, args, platform, disk, probes, chmods, spawned, result, timer>>

-----------------------------------------------------------------------------
(* the command lines and the files the process is started on *)

\* the story files of the working directory
StoryFiles ==
    [p \in {"story.ink", "tale.json", "blank.json", "bad.json", "adv.txt", "adv.md",
            ".txt", "notes.doc", "Story.INK"} |->
        CASE p \in {"story.ink", "Story.INK"} -> InkSource
          [] p = "tale.json" -> BOM \o "tale"
          [] p = "blank.json" -> "blank"
          [] p = "bad.json" -> "{"
          [] p = "adv.txt" -> "=== start ===\nHello.\n* [on] -> start"
          [] p = "adv.md" -> "=== start ===\nThe end."
          [] p = ".txt" -> "=== start ===\nhidden"
          [] OTHER -> "notes"]

\* the save files of the working directory: a save taken at the fork of the
\* tale, saves without one of the two members, with a state that is none of
\* the story, with a story text the engine rejects, and an empty object
SaveFiles ==
    [p \in {"save.json", "slot.sav", "nostate.json", "nostory.json", "badstate.json",
            "badstory.json", "empty.json"} |->
        CASE p \in {"save.json", "slot.sav"} -> "{\"storyJson\":\"tale\",\"state\":3}"
          [] p = "nostate.json" -> "{\"storyJson\":\"tale\"}"
          [] p = "nostory.json" -> "{\"state\":3}"
          [] p = "badstate.json" -> "{\"storyJson\":\"tale\",\"state\":9}"
          [] p = "badstory.json" -> "{\"storyJson\":\"{\",\"state\":3}"
          [] OTHER -> "{}"]

Argvs ==
    {<<>>, <<"--help">>, <<"-V", "story.ink">>,
     <<"replay", "save.json">>, <<"replay", "nostate.json">>,
     <<"replay", "nostory.json">>, <<"replay", "badstate.json">>,
     <<"replay", "badstory.json">>, <<"replay", "empty.json">>,
     <<"replay", "bad.json">>, <<"replay", "tale.json">>, <<"replay", "blank.json">>,
     <<"replay", "gone.json">>, <<"replay", "slot.sav">>, <<"replay">>,
     <<"story.ink">>, <<"run", "story.ink">>, <<"-v", "story.ink">>,
     <<"gone.ink">>, <<"Story.INK">>,
     <<"tale.json">>, <<"run", "blank.json">>, <<"bad.json">>,
     <<"adv.txt">>, <<"adv.md">>, <<"run", "gone.txt">>, <<".txt">>,
     <<"notes.doc">>, <<"run", "notes.doc">>,
     <<"compile", "story.ink">>, <<"compile", "gone.ink">>,
     <<"compile", "story.ink", "-o", "out.json">>, <<"compile", "adv.txt">>,
     <<"watch", "story.ink">>, <<"watch", "gone.ink">>, <<"watch">>,
     <<"watch", "adv.txt">>, <<"adv.txt", "-w">>, <<"run", "tale.json", "--watch">>,
     <<"story.ink", "-w">>,
     <<"-v", "--verbose", "gone.ink">>, <<"-vv", "gone.ink">>, <<"gone.ink", "-vvv">>}

\* every path findInklecate can test
AllCandidates ==
    UNION {{PossiblePaths(plat)[i] : i \in 1..Len(PossiblePaths(plat))} : plat \in Platforms}

\* the compilers installed: none, one or two of the candidates
InstalledSets == {S \in SUBSET AllCandidates : Cardinality(S) <= 2}

Installed(S) == [p \in S |-> UserOwned]
InstalledBy(S, owner) == [p \in S |-> owner]

\* the command line names an ink source
NamesInkSource(av) == \E i \in 1..Len(av) : ToLowerCase(ExtName(av[i])) = ".ink"

\* the compiler installation and the platform vary with the command line,
\* except under watch, where no compiler or the bundled one is installed; a
\* compiler installed alone system-wide belongs to the user or to root
VariesCompiler(av) == NamesInkSource(av) /\ av[1] # "watch"
WatchInstalledSets == {{}, {PossiblePaths("linux")[1]}}

\* calligrapher <arguments>: the process is about to enter main
CliInit ==
    /\ TextIdle
    /\ out = <<>>
    /\ exitCode = -1
    /\ story = NoStory
    /\ currentState = NoState
    /\ pc = "off"
    /\ menu = <<>>
    /\ saveData = NoFile
    /\ fs = [p \in Paths |-> NoFile]
    /\ command = ""
    /\ turns = 0
    /\ runs = 1
    /\ calls = [Continue |-> 0, ChooseChoiceIndex |-> 0]
    /\ prompts = 0
    /\ lastChoose = NoChoose
    /\ savedFrom = [p \in Paths |-> NoStory]
    /\ argv \in Argvs
    /\ args = ParseArgs(<<>>)
    /\ cpc = "parse"
    /\ platform \in (IF VariesCompiler(argv) THEN Platforms ELSE {"linux"})
    /\ \E S \in (IF VariesCompiler(argv) THEN InstalledSets
                ELSE IF NamesInkSource(argv) THEN WatchInstalledSets
                ELSE {{}}), owner \in {UserOwned, RootOwned} :
          /\ owner = RootOwned => S = {"/usr/local/bin/inklecate"}
          /\ disk = InstalledBy(S, owner) @@ StoryFiles @@ SaveFiles
    /\ probes = <<>>
    /\ chmods = <<>>
    /\ spawned = <<>>
    /\ result = NoResult
    /\ started = <<>>
    /\ timer = FALSE
    /\ md5Previous = ""
    /\ watchLog = <<>>

CliNext ==
    \/ MainParse
    \/ \E run \in CompilerRuns : MainCompile(run)
    \/ MainWatch
    \/ \E run \in CompilerRuns : WatchTick(run)
    \/ \E text \in WatchedTexts : WatchedFileWritten(text)
    \/ WatchedFileDeleted
    \/ WatchInterrupt
    \/ MainReplay
    \/ MainHelp
    \/ RunFileMissing
    \/ RunFileUnsupported
    \/ RunFileJson
    \/ RunFileText
    \/ \E run \in CompilerRuns : RunInkStory(run)
    \/ LoadStory
    \/ LoadStoryFails
    \/ TextStart
    \/ TextVisit
    \/ \E sel \in 0..(Len(choices) - 1) : TextSelect(sel)
    \/ LoopIteration
    \/ \E k \in 1..Len(menu) : MenuSelect(k)
    \/ \E cont \in BOOLEAN : PressToContinue(cont)
    \/ \E savePath \in Paths, written \in BOOLEAN : SaveGame(savePath, written)

SpecCli == CliInit /\ [][CliNext]_vars

-----------------------------------------------------------------------------
(* compileInk called as the exported function of compiler.ts *)

\* the paths and output paths compileInk is called with
ApiInputs == {"story.ink", "Story.INK", "gone.ink", "adv.txt"}
ApiOutputs == {"", "out.json"}

\* at most one compiler is installed
SingleInstalledSets == {S \in SUBSET AllCandidates : Cardinality(S) <= 1}

\* a caller is about to call compileInk({inputPath: args.file,
\* outputPath: args.options.output, verbose: args.options.verbose > 0})
CompileInit ==
    /\ TextIdle
    /\ EngineIdle
    /\ out = <<>>
    /\ exitCode = -1
    /\ argv = <<>>
    /\ \E inputPath \in ApiInputs, outputPath \in ApiOutputs, verbose \in 0..1 :
          args = [ParseArgs(<<>>) EXCEPT !.file = inputPath,
                                         !.options.output = outputPath,
                                         !.options.verbose = verbose]
    /\ cpc = "api"
    /\ platform \in Platforms
    /\ \E S \in SingleInstalledSets : disk = Installed(S) @@ StoryFiles
    /\ probes = <<>>
    /\ chmods = <<>>
    /\ spawned = <<>>
    /\ result = NoResult
    /\ started = <<>>
    /\ timer = FALSE
    /\ md5Previous = ""
    /\ watchLog = <<>>

\* what compileInk returned as c is visible to the caller
Returned(c) ==
    /\ Apply(c.effects)
    /\ result' = c.result
    /\ out' = out \o c.effects.log

\* lines 106-163 of compiler.ts: the call of compileInk
CallCompileInk(run) ==
    /\ cpc = "api"
    /\ Returned(CompileInk([inputPath |-> args.file,
                             outputPath |-> args.options.output,
                             verbose |-> args.options.verbose > 0],
                            disk, platform, run))
    /\ cpc' = "returned"
    /\ UNCHANGED <<md5Previous, watchLog>>
    /\ UNCHANGED <<argv, args, platform, started, timer, exitCode>>
    /\ UNCHANGED <<textVars, engineVars>>

CompileNext == \E run \in CompilerRuns : CallCompileInk(run)

SpecCompile == CompileInit /\ [][CompileNext]_vars

-----------------------------------------------------------------------------
(* the engine play loop: properties *)

\* the engine has no more text and offers no choice
Terminal(e) == ~CanContinue(e) /\ Len(CurrentChoices(e)) = 0

\* the step of the loop that calls advanceStory
Advances == pc = "loop" /\ turns' = turns + 1

\* C1: after every advanceStory the play loop stops if and only if the engine
\* cannot continue and offers no choice, and prompts the player in every other
\* case; the loop is never at a prompt with no choice and an engine that
\* cannot continue.
LoopStopsIffTerminal ==
    /\ [](pc \in {"menu", "confirm"} => ~Terminal(story))
    /\ [](pc = "done" => Terminal(story))
    /\ [][Advances => /\ pc' \in {"menu", "confirm", "done"}
                      /\ (pc' = "done") <=> Terminal(story')]_vars

LoopStoppedAfterText ==
    pc = "done" /\ calls.Continue > 0 /\ calls.ChooseChoiceIndex > 0

\* the path the running replay process restored from
RestoredPath == out[1].text

\* the restored process has made its first advanceStory
FirstAdvanceOfReplay ==
    /\ command = "replay"
    /\ turns = 1
    /\ pc \in {"menu", "confirm", "done"}

ChooseIndexIsSelectedPosition ==
    lastChoose # NoChoose =>
        /\ lastChoose.available > 0
        /\ lastChoose.index >= 0
        /\ lastChoose.index < lastChoose.available
        /\ lastChoose.index = lastChoose.picked - 1

SecondChoiceChosen == lastChoose.index = 1 /\ lastChoose.picked = 2

\* C4 as stated: when advanceStory has returned, the engine cannot produce
\* more text.
AdvanceExhaustsText ==
    pc \in {"menu", "confirm", "done"} => ~CanContinue(story)

\* C4 amended: one advanceStory pulls one text unit if the engine can continue
\* and none otherwise, then collects the choices and tags of the engine; the
\* engine may still be able to continue afterwards, and then the loop asks for
\* a confirmation before the next advanceStory.
AdvancePullsOneUnit ==
    [][Advances =>
        /\ calls'.Continue = calls.Continue + (IF CanContinue(story) THEN 1 ELSE 0)
        /\ currentState'.choices = CollectChoices(story')
        /\ currentState'.tags = CurrentTags(story')
        /\ (pc' = "confirm") <=> CanContinue(story')]_vars

ConfirmBetweenTextUnits ==
    pc = "confirm" /\ CanContinue(story) /\ calls.Continue = 1

-----------------------------------------------------------------------------
(* the plain-text interpreter: properties *)

\* the line has an arrow that a target follows
HasArrowTarget(line, from) ==
    \E i \in from..(Len(line) - 1) :
        /\ SubSeq(line, i, i + 1) = "->"
        /\ NonSpaceRun(line, i + 2 + SpaceRun(line, i + 2)) >= 1

\* a choice line: it begins with `*` and has an arrow followed by a target
IsChoiceLine(line) == StartsWith(line, "*") /\ HasArrowTarget(line, 1)

IsNarrativeLine(line) == ~IsChoiceLine(line)

\* a line the interpreter takes a choice from: it begins with `*` or contains
\* `[exit]` in any letter case, and has an arrow after its first character
\* that a target follows
IsExtractedLine(line) ==
    /\ StartsWith(line, "*") \/ Includes(ToLowerCase(line), "[exit]")
    /\ HasArrowTarget(line, 2)

\* C5: selecting the k-th of the N choices of a section sets the
\* current-section pointer to the target of the k-th choice line.
SelectionFollowsTarget ==
    (selection >= 0 /\ selection < Len(SectionChoices(textStory[visited]))) =>
        current = SectionChoices(textStory[visited])[selection + 1].target

\* the step that answers the prompt with the Quit entry appended to the menu
SelectsQuit == tpc = "prompt" /\ selection' = Len(choices) - 1 /\ tpc' # "prompt"

QuitEndsLoop ==
    [][SelectsQuit => tpc' = "done" /\ current' = current /\ visits' = visits]_vars

MissingSectionStopsCleanly ==
    (current \notin DOMAIN textStory /\ tpc \notin {"start", "loop"}) =>
        /\ tpc = "done"
        /\ exitCode = 0
        /\ out[Len(out) - 1] = Event("missing", current)

\* the events of the scenario when the first entry is always selected
ScenarioOutput(t1, l1, t2) ==
    <<Event("loaded", ""), Event("print", t1), Event("prompt", "start"),
      Event("select", l1), Event("print", t2), Event("end", "left"),
      Event("footer", "")>>

IsPrefix(p, q) == Len(p) <= Len(q) /\ SubSeq(q, 1, Len(p)) = p

\* every answer given so far selected the entry labelled l
AlwaysSelected(l) ==
    \A i \in 1..Len(out) : out[i].ev = "select" => out[i].text = l

PrintedBy(before, after) ==
    LET new == SubSeq(after, Len(before) + 1, Len(after))
        IsPrint(e) == e.ev = "print"
        prints == SelectSeq(new, IsPrint)
    IN  [i \in 1..Len(prints) |-> prints[i].text]

\* C9: a visit of a section prints every line of it that is not a choice
\* line once, in file order, before the menu; a line that begins with `*` and
\* has no arrow is among them.
VisitPrintsNarrative ==
    [][(tpc = "loop" /\ tpc' \in {"prompt", "done"} /\ current \in DOMAIN textStory) =>
          PrintedBy(out, out') = SelectSeq(textStory[current], IsNarrativeLine)]_vars

\* the section map written back: a marker per section, then its lines
RECURSIVE SerializeSections(_, _)
SerializeSections(map, names) ==
    IF Len(names) = 0 THEN <<>>
    ELSE <<"=== " \o Head(names) \o " ===">> \o map[Head(names)]
         \o SerializeSections(map, Tail(names))

Serialize(map, names) == JoinLines(SerializeSections(map, names))

\* C10: writing the parsed section map back as a marker per section followed
\* by the lines of the section, and parsing that text, gives the same map.
ParseSerializeRoundTrip ==
    tpc # "start" => ParseStory(Serialize(textStory, allSections)).story = textStory

ParsedTwoSections ==
    /\ tpc # "start"
    /\ Len(allSections) = 2
    /\ \E n \in DOMAIN textStory : Len(textStory[n]) > 0

-----------------------------------------------------------------------------
(* runTextStory: parsing, properties *)

\* the position of the nearest marker line before line i of ls, 0 if none
NearestMarker(ls, i) ==
    IF \E j \in 1..(i - 1) : IsMarker(ls[j])
    THEN CHOOSE j \in 1..(i - 1) :
            /\ IsMarker(ls[j])
            /\ \A k \in (j + 1)..(i - 1) : ~IsMarker(ls[k])
    ELSE 0

\* line i of ls is a non-blank line that is no marker and follows the marker
\* of section n more closely than any other marker
BelongsTo(ls, i, n) ==
    /\ NotBlank(ls[i])
    /\ ~IsMarker(ls[i])
    /\ NearestMarker(ls, i) > 0
    /\ SectionName(ls[NearestMarker(ls, i)]) = n

\* the lines among the first k of ls that belong to section n, in file order
RECURSIVE LinesOfSection(_, _, _)
LinesOfSection(ls, k, n) ==
    IF k = 0 THEN <<>>
    ELSE IF BelongsTo(ls, k, n) THEN Append(LinesOfSection(ls, k - 1, n), ls[k])
    ELSE LinesOfSection(ls, k - 1, n)

\* the names of the markers of ls that carry a name
MarkerNames(ls) ==
    {SectionName(ls[i]) : i \in {j \in 1..Len(ls) : IsMarker(ls[j])}} \ {""}

\* C11: after parsing, the section map holds under every marker's name all the
\* non-blank, non-marker lines whose nearest preceding marker has that name,
\* in file order; no such line of the file is missing from the map, also when
\* two markers carry the same name.
ParseKeepsEveryLine ==
    tpc # "start" =>
        LET ls == SplitLines(content)
        IN  \A n \in MarkerNames(ls) :
                /\ n \in DOMAIN textStory
                /\ textStory[n] = LinesOfSection(ls, Len(ls), n)

-----------------------------------------------------------------------------
(* the command line: properties *)

\* the step is a call of runFile on an existing path with extension ext
RunsFileWith(ext) ==
    /\ IsRunFile
    /\ ExistsSync(disk, args.file)
    /\ ToLowerCase(ExtName(args.file)) = ext
    /\ cpc' # cpc

\* the step starts neither the plain-text interpreter nor engine playback
StartsNoPlayback == started' = started /\ tpc' = tpc /\ pc' = pc /\ content' = content

\* C12: runFile on an existing path selects its playback strategy by the
\* extension alone: .json enters engine playback of the file, .ink enters
\* compile-then-play of the file, .txt and .md enter the plain-text
\* interpreter on the file, and any other extension starts nothing.
DispatchByExtension ==
    [][/\ RunsFileWith(".json") =>
            /\ started' = Append(started, Strategy("json", args.file))
            /\ pc' = "load" /\ tpc' = tpc
       /\ RunsFileWith(".ink") =>
            /\ Len(started') = Len(started) + 2
            /\ started'[Len(started) + 1] = Strategy("ink", args.file)
       /\ (RunsFileWith(".txt") \/ RunsFileWith(".md")) =>
            /\ started' = Append(started, Strategy("text", args.file))
            /\ tpc' = "start" /\ content' = disk[args.file] /\ pc' = pc
       /\ (\E ext \in {ToLowerCase(ExtName(args.file))} \ {".json", ".ink", ".txt", ".md"} :
              RunsFileWith(ext)) => StartsNoPlayback]_vars

MarkdownPlayedAsText ==
    /\ started = <<Strategy("text", "adv.md")>>
    /\ tpc = "done"
    /\ exitCode = 0

\* the command line asks to run file f: f alone or after the run command
RunsNamed(f) == argv = <<f>> \/ argv = <<"run", f>>

SupportedExtensions == {".ink", ".json", ".txt", ".md"}

Printed(kind, prefix) ==
    \E i \in 1..Len(out) : out[i].ev = kind /\ StartsWith(out[i].text, prefix)

\* C13: an invocation that names an existing file with an extension that is
\* not supported ends with the warning and the list of supported formats
\* printed, no playback or compilation started, and exit code 0.
UnsupportedFormatIsWarning ==
    \A f \in DOMAIN StoryFiles :
        (/\ RunsNamed(f)
         /\ ToLowerCase(ExtName(f)) \notin SupportedExtensions
         /\ cpc = "exit")
        => /\ Printed("warning", "Unsupported file format")
           /\ Printed("print", "Supported formats:")
           /\ started = <<>>
           /\ spawned = <<>>
           /\ exitCode = 0

\* main has handed the file of the command line to runFile or to watch
RunOrWatchCalled ==
    /\ cpc \notin {"parse", "dispatch"}
    /\ ~args.options.version
    /\ ~args.options.help
    /\ ~IsCompileCommand
    /\ args.command # "replay"
    /\ (args.file # "" \/ args.command = "watch")

\* C14: when runFile or watch is given a path that does not exist, the
\* error is reported and the process has exited with a non-zero code, no
\* playback strategy was started, no compiler looked up or run, and no
\* polling timer set.  (With an empty watchLog the files are those of the
\* call.)
MissingFileIsFatal ==
    (RunOrWatchCalled /\ watchLog = <<>> /\ ~ExistsSync(disk, args.file)) =>
        /\ cpc = "exit"
        /\ exitCode > 0
        /\ Printed("error", "File not found: ")
        /\ started = <<>>
        /\ tpc = "off"
        /\ pc = "off"
        /\ probes = <<>>
        /\ spawned = <<>>
        /\ ~timer

MissingWatchedFileExited ==
    /\ args.command = "watch"
    /\ args.file = "gone.ink"
    /\ ~ExistsSync(disk, args.file)
    /\ cpc = "exit"
    /\ exitCode = 1

-----------------------------------------------------------------------------
(* the compiler adapter: properties *)

\* the step is the compile command calling compileInk through inkToJson
CallsCompileInk == cpc = "dispatch" /\ IsCompileCommand /\ cpc' = "exit"

\* no candidate location of the platform holds a file
NoCompilerInstalled ==
    /\ \A i \in 1..Len(PossiblePaths(platform)) : PossiblePaths(platform)[i] \notin DOMAIN disk
    /\ \A i \in 1..Len(LinuxPaths) : LinuxPaths[i] \notin DOMAIN disk

\* C15: compileInk on an input path that does not exist returns a failure
\* with the file-not-found error, having tested no candidate compiler
\* location, run no subprocess and written no file.
MissingInputFailsEarly ==
    [][(CallsCompileInk /\ args.file \notin DOMAIN disk) =>
          /\ ~result'.success
          /\ result'.error = "Input file not found: " \o args.file
          /\ probes' = probes
          /\ chmods' = chmods
          /\ spawned' = spawned
          /\ disk' = disk]_vars

CompiledMissingInput ==
    /\ argv = <<"compile", "gone.ink">>
    /\ cpc = "exit"
    /\ ~NoCompilerInstalled
    /\ result.error = "Input file not found: gone.ink"

\* C16: compileInk on an existing .ink input with no compiler at any
\* candidate location returns the compiler-not-found failure as a result,
\* runs no subprocess and leaves every file, the output file included, as
\* it was.
NoCompilerFailsCleanly ==
    [][(/\ CallsCompileInk
        /\ args.file \in DOMAIN disk
        /\ ToLowerCase(ExtName(args.file)) = ".ink"
        /\ NoCompilerInstalled) =>
          /\ ~result'.success
          /\ result'.error = "inklecate compiler not found."
          /\ spawned' = spawned
          /\ disk' = disk]_vars

CompiledWithoutCompiler ==
    /\ argv = <<"compile", "story.ink">>
    /\ cpc = "exit"
    /\ NoCompilerInstalled
    /\ result.error = "inklecate compiler not found."
    /\ Len(probes) >= Len(PossiblePaths(platform))

\* candidate p of the list ps exists and no candidate before it does
IsEarliestExisting(p, ps) ==
    \E k \in 1..Len(ps) :
        /\ ps[k] = p
        /\ p \in DOMAIN disk
        /\ \A j \in 1..(k - 1) : ps[j] \notin DOMAIN disk

\* 1 for a location of the tool or the project, 2 for a system-wide one,
\* 3 for one below the home directory
LocationClass(p) ==
    IF StartsWith(p, HomeDir \o "/") THEN 3
    ELSE IF StartsWith(p, "/usr/") THEN 2
    ELSE 1

\* C17: findInklecate returns the earliest candidate of its ordered list
\* (tool and project locations, then system-wide, then user-local ones) that
\* exists, and null exactly when no candidate exists; the compiler that is
\* run is never a later candidate while an earlier one exists.
FindsEarliestCandidate ==
    LET ps == PossiblePaths(platform)
        found == FindInklecate(disk, platform)
    IN  /\ found.path = "" <=> NoCompilerInstalled
        /\ found.path # "" => IsEarliestExisting(found.path, ps)
        /\ \A i \in 1..Len(spawned) : IsEarliestExisting(spawned[i].compiler, ps)
        /\ \A i \in 1..Len(ps) : \A j \in i..Len(ps) :
               LocationClass(ps[i]) <= LocationClass(ps[j])

EarlierOfTwoCompilersRun ==
    /\ Len(spawned) > 0
    /\ \E k \in 1..Len(PossiblePaths(platform)) :
          /\ PossiblePaths(platform)[k] \in DOMAIN disk
          /\ PossiblePaths(platform)[k] # spawned[1].compiler

\* the latest run of the compiler subprocess
LastSpawned == spawned[Len(spawned)]

\* text with one leading byte-order mark taken away, if it has one
WithoutLeadingBom(text) ==
    IF Len(text) > 0 /\ SubSeq(text, 1, 1) = BOM
    THEN SubSeq(text, 2, Len(text))
    ELSE text

\* C18: whenever compileInk returns success, the file at the returned output
\* path does not begin with a byte-order mark and holds what the compiler
\* subprocess produced, less a leading byte-order mark if there was one.
SuccessfulOutputHasNoBom ==
    (result.success /\ Len(spawned) > 0) =>
        /\ LastSpawned.ok
        /\ result.outputPath = LastSpawned.output
        /\ result.outputPath \in DOMAIN disk
        /\ ~StartsWith(disk[result.outputPath], BOM)
        /\ disk[result.outputPath] = WithoutLeadingBom(LastSpawned.text)

CompiledOutputHadBom ==
    /\ result.success
    /\ Len(spawned) > 0
    /\ StartsWith(LastSpawned.text, BOM)
    /\ Len(disk[result.outputPath]) > 0

\* C19: when the compiler subprocess fails, compileInk returns (nothing is
\* thrown out of it) a failure result whose error text contains the message
\* of the subprocess error; success is never reported for that invocation.
SubprocessFailureIsReported ==
    (Len(spawned) > 0 /\ ~LastSpawned.ok) =>
        /\ ~result.success
        /\ result.outputPath = ""
        /\ Includes(result.error, ExecError(LastSpawned.cmd, LastSpawned.text))
        /\ Includes(result.error, LastSpawned.text)

CompileCommandSubprocessFailed ==
    /\ IsCompileCommand
    /\ Len(spawned) > 0
    /\ ~LastSpawned.ok
    /\ ~result.success
    /\ cpc = "exit"

\* the step meets one of the two compiler errors: no compiler is installed,
\* or the compiler subprocess is run and fails
MeetsCompilerError ==
    \/ NoCompilerInstalled
    \/ /\ Len(spawned') = Len(spawned) + 1
       /\ ~spawned'[Len(spawned')].ok

\* the plain-text interpreter was started on the source f after runInkStory
\* met a compiler error
FellBackToText(f) ==
    /\ started = <<Strategy("ink", f), Strategy("text", f)>>
    /\ NoCompilerInstalled \/ (Len(spawned) > 0 /\ ~LastSpawned.ok)

\* C20: when run is given an .ink file and the compiler is not found or the
\* compilation fails, the same source is played by the plain-text
\* interpreter and the process does not exit non-zero because of the error;
\* under the compile command the same two errors end the process with a
\* non-zero exit code and no playback of any kind is started.
RunFallsBackCompileIsFatal ==
    /\ [][/\ (RunsFileWith(".ink") /\ MeetsCompilerError) =>
                /\ started' = started \o <<Strategy("ink", args.file),
                                            Strategy("text", args.file)>>
                /\ tpc' = "start"
                /\ content' = disk[args.file]
                /\ pc' = pc
                /\ cpc' = "playing"
                /\ exitCode' = exitCode
          /\ (CallsCompileInk /\ MeetsCompilerError) =>
                /\ exitCode' > 0
                /\ StartsNoPlayback]_vars
    /\ [](\A f \in DOMAIN disk : FellBackToText(f) => exitCode \in {-1, 0})
    /\ [](IsCompileCommand => started = <<>> /\ tpc = "off" /\ pc = "off")

PlayedSourceAfterFailedCompilation ==
    /\ FellBackToText("story.ink")
    /\ Len(spawned) > 0
    /\ ~result.success
    /\ cpc = "playing"
    /\ exitCode = 0

-----------------------------------------------------------------------------
(* the engine play loop: properties *)

\* the tag lists a text unit is displayed with: recognised tags, a tag that
\* differs from one in case only, a tag that contains one, an unknown tag
MaxTags == 3
TagNames == {"title", "scene", "combat", "dialog", "Title", "dialogue"}
TagLists == SeqsUpTo(TagNames, MaxTags)

\* the styles in their priority order, plain apart
StylePriority == <<"title", "scene", "combat", "dialog">>

\* the style of the highest-priority tag among the set of tags, or plain
HighestPriorityStyle(tagSet) ==
    IF \E k \in 1..Len(StylePriority) : StylePriority[k] \in tagSet
    THEN StylePriority[CHOOSE k \in 1..Len(StylePriority) :
            /\ StylePriority[k] \in tagSet
            /\ \A j \in 1..(k - 1) : StylePriority[j] \notin tagSet]
    ELSE "plain"

TagSet(tags) == {tags[i] : i \in 1..Len(tags)}

\* the events among those after position n of events that display text
StyledEvents(events, n) ==
    {i \in (n + 1)..Len(events) :
        events[i].ev \in TagSet(StylePriority) \cup {"plain"}}

\* C21: each displayed text unit is rendered with exactly one style, that of
\* the highest-priority tag (title > scene > combat > dialog) present among
\* its tags by exact match, plain when none is present, whatever the order
\* of the tags.
StyleFollowsPriority ==
    /\ \A tags \in TagLists : StyleOf(tags) = HighestPriorityStyle(TagSet(tags))
    /\ [][(turns' = turns + 1 /\ Trim(currentState'.currentText) # "") =>
            /\ Cardinality(StyledEvents(out', Len(out))) = 1
            /\ \A i \in StyledEvents(out', Len(out)) :
                  out'[i] = Event(HighestPriorityStyle(TagSet(currentState'.tags)),
                                  currentState'.currentText)]_vars

SceneShownForDialogSceneTags ==
    /\ currentState.tags = <<"dialog", "scene">>
    /\ \E i \in 1..Len(out) : out[i] = Event("scene", currentState.currentText)

\* choice labels a story may carry, the names of the two added entries and
\* labels that look like numbered entries among them
MaxChoices == 3
EngineChoiceLabels == {"Go", "Quit", "0. Quit", "S. Save game", "2. Go", ""}
ChoiceLists == SeqsUpTo(EngineChoiceLabels, MaxChoices) \ {<<>>}

\* m is the menu of the choice labels cs: the choices in their order, each
\* under its engine index, then Quit, then Save game, all names distinct
IsMenuOf(m, cs) ==
    /\ Len(m) = Len(cs) + 2
    /\ \A i \in 1..Len(cs) :
          /\ m[i].value = i - 1
          /\ EndsWith(m[i].name, cs[i])
    /\ m[Len(cs) + 1] = [name |-> "0. Quit", value |-> -1]
    /\ m[Len(cs) + 2] = [name |-> "S. Save game", value |-> -2]
    /\ \A i, j \in 1..Len(m) : m[i].name = m[j].name => i = j
    /\ \A k \in 1..Len(m) : FindValue(m, m[k].name) = m[k].value

\* C22: whenever the engine offers N >= 1 choices the menu presented has
\* exactly N+2 entries, the N story choices in engine order, then Quit, then
\* Save game, with pairwise distinct names whatever the labels are; selecting
\* Quit ends the process with exit code 0 without a further engine call.
MenuIsChoicesQuitSave ==
    /\ \A cs \in ChoiceLists : IsMenuOf(BuildMenu(cs), cs)
    /\ [](pc = "menu" =>
            /\ Len(CurrentChoices(story)) >= 1
            /\ IsMenuOf(menu, CollectChoices(story)))
    /\ [][/\ (pc = "menu" /\ Len(out') > Len(out)
                   /\ out'[Len(out) + 1] = Event("select", "0. Quit")) =>
                /\ pc' = "exited"
                /\ exitCode' = 0
                /\ calls' = calls
                /\ story' = story
          /\ (pc = "exited" /\ runs' = runs) => calls' = calls]_vars

QuitSelectedAmongLookalikes ==
    /\ pc = "exited"
    /\ exitCode = 0
    /\ story.storyJson = "door"
    /\ Len(menu) = 4
    /\ Len(out) >= 2
    /\ out[Len(out) - 1] = Event("select", "0. Quit")
    /\ out[Len(out)] = Event("thanks", "")

\* the last thing printed is the report of a failed write of the save file
SaveJustFailed == Len(out) > 0 /\ out[Len(out)].ev = "saveFailed"

\* C23: when writing the save file fails, saveGame reports the error, the
\* process does not terminate, and the play loop goes on to its next prompt.
SaveFailureIsNotFatal ==
    /\ [](SaveJustFailed => pc = "loop" /\ exitCode = -1)
    /\ [][/\ (pc = "savePath" /\ out'[Len(out')].ev # "saved") =>
                /\ out' = Append(out, Event("saveFailed", out'[Len(out')].text))
                /\ fs' = fs
                /\ pc' = "loop"
                /\ exitCode' = exitCode
                /\ story' = story
          /\ (SaveJustFailed /\ turns' = turns + 1) =>
                /\ pc' = "menu"
                /\ menu' = menu
                /\ out'[Len(out')] = Event("menu", "")
                /\ exitCode' = -1]_vars

PromptedAfterFailedSave ==
    /\ pc = "menu"
    /\ exitCode = -1
    /\ \E i \in 1..(Len(out) - 1) :
          /\ out[i].ev = "saveFailed"
          /\ out[i + 1] = Event("menu", "")

-----------------------------------------------------------------------------
(* replay and watch: properties *)

\* the step is the call of replay by main
CallsReplay == cpc = "dispatch" /\ ~IsCompileCommand /\ args.command = "replay"

\* the file replay is called with cannot be read, is not valid JSON, lacks
\* the compiled story or the engine state, or holds a state the engine of
\* its story does not take
CannotBeRestored ==
    \/ args.file \notin DOMAIN disk
    \/ ~JsonParse(disk[args.file]).valid
    \/ ~HasMember(JsonParse(disk[args.file]).members, "storyJson")
    \/ ~HasMember(JsonParse(disk[args.file]).members, "state")
    \/ /\ Member(JsonParse(disk[args.file]).members, "storyJson") \in StoryJsons
       /\ Member(JsonParse(disk[args.file]).members, "state").node \notin
             DOMAIN StoryNodes(Member(JsonParse(disk[args.file]).members, "storyJson"))

\* a prompt has been presented: a menu, a confirmation or the save path
Prompted == \E i \in 1..Len(out) : out[i].ev \in {"menu", "confirm", "savePath", "prompt"}

\* C24: replay on a file that cannot be read, is not valid JSON, lacks the
\* compiled story or the engine state, or whose state cannot be applied,
\* reports the failure, exits with a non-zero code and never presents a
\* prompt or enters the play loop.
RestoreFailureIsFatal ==
    /\ [][(CallsReplay /\ CannotBeRestored) =>
            /\ out'[Len(out')] = Event("restoreFailed", args.file)
            /\ exitCode' > 0
            /\ cpc' = "exit"
            /\ pc' = "off"
            /\ started' = <<>>]_vars
    /\ []((\E i \in 1..Len(out) : out[i].ev = "restoreFailed") =>
            /\ cpc = "exit"
            /\ exitCode > 0
            /\ pc = "off" /\ tpc = "off"
            /\ turns = 0
            /\ ~Prompted)

ReplayOfSaveWithoutStateExited ==
    /\ argv = <<"replay", "nostate.json">>
    /\ cpc = "exit"
    /\ exitCode = 1
    /\ out[Len(out)] = Event("restoreFailed", "nostate.json")

\* a play loop, of the engine or of the plain-text interpreter, has been
\* entered in this process
PlayLoopEntered == pc # "off" \/ tpc # "off" \/ started # <<>>

\* C26: in no state of a process are the watch polling timer set and a play
\* loop entered, whatever the command and the flags, the watch option given
\* with a run included.
WatchExcludesPlay ==
    /\ timer => ~PlayLoopEntered /\ args.command = "watch" /\ cpc = "watching"
    /\ PlayLoopEntered => ~timer /\ args.command # "watch" /\ watchLog = <<>>

PlayedWithWatchOption ==
    /\ args.options.watch
    /\ args.file = "adv.txt"
    /\ tpc \notin {"off", "start"}
    /\ ~timer

\* C27: once the polling has started the watch ends only through the
\* interrupt signal, which clears the timer and exits with code 0; neither a
\* failed recompile nor the watched file being deleted or unreadable at a
\* tick ends the process or stops the polling.
WatchEndsOnlyByInterrupt ==
    [][(cpc = "watching" /\ (cpc' # "watching" \/ ~timer')) =>
          /\ out' = Append(out, Event("print", "Stopping watch..."))
          /\ exitCode' = 0
          /\ ~timer']_vars

\* the content of the watched file after the first i events of the watch,
\* Absent after its deletion
Absent == "(no file)"
RECURSIVE ContentAfter(_)
ContentAfter(i) ==
    IF i = 0 THEN StoryFiles[args.file]
    ELSE IF watchLog[i].ev = "write" THEN watchLog[i].text
    ELSE IF watchLog[i].ev = "delete" THEN Absent
    ELSE ContentAfter(i - 1)

\* the polling ticks that found the watched file
Ticks == {i \in 1..Len(watchLog) : watchLog[i].ev = "tick" /\ ContentAfter(i) # Absent}

\* the tick before event i, 0 for the start of the watch
PreviousTick(i) ==
    IF \E j \in 1..(i - 1) : watchLog[j].ev = "tick"
    THEN CHOOSE j \in 1..(i - 1) :
            /\ watchLog[j].ev = "tick"
            /\ \A k \in (j + 1)..(i - 1) : watchLog[k].ev # "tick"
    ELSE 0

\* the events since the tick before tick i that changed the content
ChangesBefore(i) ==
    {j \in (PreviousTick(i) + 1)..(i - 1) : ContentAfter(j) # ContentAfter(j - 1)}

Recompiled(i) == watchLog[i].text = "recompile"

\* the recompile attempts announced so far
Attempts ==
    {k \in 1..Len(out) : out[k] = Event("print", "=== File changed, recompiling ===")}

\* C25 as stated: each tick makes one recompile attempt exactly when the
\* content of the watched file was changed since the tick before, once for
\* several changes and never while the content is unchanged.
EveryChangeRecompilesOnce ==
    /\ \A i \in Ticks : Recompiled(i) <=> ChangesBefore(i) # {}
    /\ Cardinality(Attempts) = Cardinality({i \in Ticks : Recompiled(i)})

\* C25 amended: a tick that finds the watched file makes exactly one
\* recompile attempt, successful or not, when the content of the file
\* differs from its content at the tick before (at the start of the watch
\* for the first tick) and none otherwise; several changes between two ticks
\* are one recompile, or none when they restore the content.
TickRecompilesChangedContent ==
    /\ \A i \in Ticks :
          Recompiled(i) <=> ContentAfter(i) # ContentAfter(PreviousTick(i))
    /\ Cardinality(Attempts) = Cardinality({i \in Ticks : Recompiled(i)})
    /\ args.command = "watch" => Len(spawned) <= Cardinality(Attempts)
    /\ (cpc = "watching" /\ ContentAfter(Len(watchLog)) # Absent
         /\ Len(watchLog) > 0 /\ watchLog[Len(watchLog)].ev = "tick") =>
            md5Previous = Md5(disk[args.file])

SeveralChangesOneRecompile ==
    /\ Len(watchLog) = 4
    /\ \A i \in 1..3 : watchLog[i].ev = "write"
    /\ ChangesBefore(4) = {1, 2, 3}
    /\ watchLog[4] = WatchEvent("tick", "recompile")
    /\ Cardinality(Attempts) = 1
    /\ ~result.success

\* C28: when the compile command is given an output path with an .ink file,
\* the compiler is run with that path as its output and the compiled story
\* is written there; the default path is used only without the option.
OutputOptionIsHonoured ==
    (IsCompileCommand /\ Len(spawned) > 0) =>
        /\ spawned[1].output = (IF args.options.output # "" THEN args.options.output
                                ELSE ReplaceInkSuffix(args.file))
        /\ result.success =>
              /\ result.outputPath = spawned[1].output
              /\ ExistsSync(disk, spawned[1].output)

-----------------------------------------------------------------------------
(* compileInk: properties *)

\* compileInk accepts the input: the file exists and its extension is .ink
\* in any letter case
AcceptedInput(inputPath) ==
    /\ inputPath \in DOMAIN StoryFiles
    /\ ToLowerCase(ExtName(inputPath)) = ".ink"

\* C29: for every input path compileInk accepts and no explicit output
\* path, the default output path differs from the input path and the source
\* file holds after the call what it held before.
CompileKeepsItsInput ==
    (cpc = "returned" /\ AcceptedInput(args.file) /\ args.options.output = "") =>
        /\ \A i \in 1..Len(spawned) : spawned[i].output # args.file
        /\ args.file \in DOMAIN disk
        /\ disk[args.file] = StoryFiles[args.file]

-----------------------------------------------------------------------------
(* the engine play loop: prompts between advances *)

\* the step calls story.Continue and is not the first such call of the process
AdvancesAgain == calls.Continue > 0 /\ calls'.Continue = calls.Continue + 1

\* C30 as stated: between two consecutive calls of story.Continue the loop
\* suspends on exactly one prompt.
ExactlyOnePromptBetweenAdvances ==
    [][AdvancesAgain => prompts = 1]_vars

\* C30 amended: the engine is never advanced twice without a prompt in
\* between: one step calls Continue at most once, and between two
\* consecutive calls the loop suspends on one menu or confirmation, and on a
\* path prompt and the menu again for each Save game selected there.
PromptBetweenAdvances ==
    [][/\ calls'.Continue <= calls.Continue + 1
       /\ AdvancesAgain =>
             /\ pc = "loop"
             /\ prompts >= 1
             /\ prompts % 2 = 1
             /\ out[Len(out)].ev \in {"select", "confirm", "saved", "saveFailed"}]_vars

MenuAgainAfterSave ==
    /\ pc = "menu"
    /\ calls.Continue > 0
    /\ prompts = 3

-----------------------------------------------------------------------------
(* tags and control flow *)

\* the text units and choices of a story, its tags left out
Untagged(nodes) ==
    [n \in DOMAIN nodes |->
        IF nodes[n].kind = "text" THEN [nodes[n] EXCEPT !.tags = <<>>] ELSE nodes[n]]

\* the stories with the text units and choices of json, whatever their tags
TagVariants(json) ==
    {j \in StoryJsons : Untagged(StoryNodes(j)) = Untagged(StoryNodes(json))}

\* the engines that stand where the engine of the session stands, in a story
\* that differs from its story in tags at most, with any current tags
OtherTagged ==
    {[storyJson |-> j, node |-> story.node, tags |-> t] :
        j \in TagVariants(story.storyJson),
        t \in {<<>>, <<"title">>, <<"scene", "dialog">>, <<"combat">>}}

Styles == {"title", "scene", "combat", "dialog", "plain"}

\* the events with the style of the displayed text left out
Unstyled(events) ==
    [i \in 1..Len(events) |->
        IF events[i].ev \in Styles THEN Event("text", events[i].text) ELSE events[i]]

\* what the step printed
NewEvents == SubSeq(out', Len(out) + 1, Len(out'))

\* the step passes the player's selection to ChooseChoiceIndex
Chooses == pc = "menu" /\ calls'.ChooseChoiceIndex = calls.ChooseChoiceIndex + 1

\* C31: tags never influence control flow: what a step of the session does
\* (engine calls, the position the engine is left at, the state recorded, the
\* text displayed, the prompt presented with its menu, the end of the loop) is
\* what the same step does on any engine at the same position of a story
\* with the same text units and choices and other tags; the style of the
\* displayed text apart.
TagsNeverSteer ==
    [][\A e \in OtherTagged :
          /\ Advances =>
                LET b == AdvanceStory(e)
                IN  /\ story'.node = b.story.node
                    /\ calls'.Continue = calls.Continue + b.pulled
                    /\ currentState'.currentText = b.state.currentText
                    /\ currentState'.choices = b.state.choices
                    /\ currentState'.canContinue = b.state.canContinue
                    /\ (pc' = "done") <=> ~LoopContinues(b.state)
                    /\ (pc' = "menu") <=> Len(b.state.choices) > 0
                    /\ (pc' = "confirm") <=>
                          (LoopContinues(b.state) /\ Len(b.state.choices) = 0)
                    /\ pc' = "menu" => menu' = BuildMenu(b.state.choices)
                    /\ Len(NewEvents) >= Len(b.shown)
                    /\ Unstyled(SubSeq(NewEvents, 1, Len(b.shown))) = Unstyled(b.shown)
                    /\ \A i \in (Len(b.shown) + 1)..Len(NewEvents) :
                          NewEvents[i].ev \notin Styles
          /\ Chooses =>
                /\ lastChoose'.index \in 0..(Len(CurrentChoices(e)) - 1)
                /\ story'.node = ChooseChoiceIndex(e, lastChoose'.index).node
          /\ (pc \in {"menu", "confirm", "savePath"} /\ ~Chooses) =>
                /\ story' = story
                /\ \A i \in 1..Len(NewEvents) : NewEvents[i].ev \notin Styles]_vars

\* the yarn has shown the opening of the tale as a dialog line and its
\* second text unit as a title, and stands at the menu of the fork
YarnStyledOtherwise ==
    /\ story.storyJson = "yarn"
    /\ pc = "menu"
    /\ "tale" \in TagVariants("yarn")
    /\ \E i \in 1..Len(out) : out[i] = Event("dialog", "Once upon a time.\n")
    /\ \E i \in 1..Len(out) : out[i] = Event("title", "A road forks.\n")
    /\ Len(menu) = 5

-----------------------------------------------------------------------------
(* caught errors *)

\* a message printed on the error or warning stream contains text
Reported(text) ==
    \E k \in 1..Len(out) : out[k].ev \in {"error", "warning"} /\ Includes(out[k].text, text)

\* C32: no error is silently swallowed: the error of every failed call that
\* the command line or the compiler adapter catches, the permission change
\* on a located compiler and a failed compilation included, is in a message
\* the process has printed.
EveryCaughtErrorIsReported ==
    /\ \A i \in 1..Len(chmods) : chmods[i].error # "" => Reported(chmods[i].error)
    /\ (cpc \in {"exit", "playing", "watching"} /\ result.error # "") =>
          Reported(result.error)

-----------------------------------------------------------------------------
(* runInkStory: the fallback *)

\* the plain-text interpreter was started on the ink source the run began with
SourcePlayedAsText ==
    /\ Len(started) >= 2
    /\ started[1].kind = "ink"
    /\ started[Len(started)] = Strategy("text", started[1].file)

\* C33: under run on an .ink file the plain-text interpreter is started on
\* the source, and a failed compilation reported, only if no compiler was
\* found or compileInk returned a failure; never after a successful
\* compilation.
FallbackOnlyOnCompilerError ==
    /\ SourcePlayedAsText => (spawned = <<>> \/ ~result.success)
    /\ (Len(started) > 0 /\ started[1].kind = "ink"
          /\ Printed("error", "Compilation failed")) => ~result.success

-----------------------------------------------------------------------------
(* main: dispatch, properties *)

\* runFile has started a playback strategy
RunFileStarted == started # <<>> /\ started[1].kind \in {"ink", "json", "text"}

\* C34: runFile starts a playthrough only when the command is run or no
\* command is given; under the compile command no playthrough is started,
\* whatever the extension of the file.
PlaythroughOnlyUnderRun ==
    /\ RunFileStarted => args.command \in {"run", ""}
    /\ args.command = "compile" => started = <<>> /\ tpc = "off" /\ pc = "off"

-----------------------------------------------------------------------------
(* saveGame: what it leaves alone *)

\* the last thing printed is the outcome of a save, written or failed
SaveJustEnded == Len(out) > 0 /\ out[Len(out)].ev \in {"saved", "saveFailed"}

\* C35: selecting Save game leaves the session where it was: from the
\* selection to the next prompt, whether the write succeeds or fails, the
\* engine is unchanged and is not called, no story text is displayed, and the
\* next prompt is the menu Save game was selected from.
SaveLeavesSessionInPlace ==
    [][/\ (pc = "menu" /\ pc' = "savePath") =>
             /\ story' = story /\ calls' = calls
             /\ menu' = menu /\ currentState' = currentState
             /\ \A i \in 1..Len(NewEvents) : NewEvents[i].ev \notin Styles
       /\ pc = "savePath" =>
             /\ story' = story /\ calls' = calls
             /\ menu' = menu /\ currentState' = currentState
             /\ pc' = "loop"
             /\ Len(NewEvents) = 1 /\ NewEvents[1].ev \in {"saved", "saveFailed"}
       /\ (SaveJustEnded /\ Advances) =>
             /\ story' = story /\ calls' = calls
             /\ currentState'.choices = currentState.choices
             /\ menu' = menu
             /\ pc' = "menu"
             /\ NewEvents = <<Event("menu", "")>>]_vars

\* the menu of the fork is presented again after the save was written
SameMenuAfterWrittenSave ==
    /\ pc = "menu"
    /\ story.storyJson = "tale"
    /\ Len(menu) = 5
    /\ Len(out) >= 5
    /\ out[Len(out) - 4] = Event("menu", "")
    /\ out[Len(out) - 3] = Event("select", "S. Save game")
    /\ out[Len(out) - 2] = Event("savePath", "")
    /\ out[Len(out) - 1].ev = "saved"
    /\ out[Len(out)] = Event("menu", "")

-----------------------------------------------------------------------------
(* the engine play loop: termination *)

\* the loop has stopped and the completion footer is the last thing printed
StoryComplete == pc = "done" /\ exitCode = 0 /\ out[Len(out)] = Event("footer", "")

\* C36: on a finite story, with a player who answers every prompt, never
\* quits and selects Save game finitely often, the play loop eventually
\* stops and the completion footer is printed.
FiniteStoryCompletes ==
    /\ [](story # NoStory => story.storyJson \in FiniteStoryJsons)
    /\ (pc \in {"load", "loop", "menu", "confirm", "savePath"}) ~> StoryComplete

\* the stroll was played to its end through the garden, with a save on the way
StrollCompleteAfterSave ==
    /\ StoryComplete
    /\ story.storyJson = "stroll"
    /\ calls.Continue = 3
    /\ SavesSelected = MaxSaves
    /\ turns = 3 + MaxSaves

-----------------------------------------------------------------------------
(* the plain-text play loop: termination *)

\* the sections a choice of section n leads to
TargetSections(map, n) ==
    LET cs == SectionChoices(map[n])
    IN  {cs[i].target : i \in 1..Len(cs)} \cap DOMAIN map

\* the sections at which a walk of k choices through the section graph ends
RECURSIVE WalkEnds(_, _)
WalkEnds(map, k) ==
    IF k = 0 THEN DOMAIN map
    ELSE UNION {TargetSections(map, n) : n \in WalkEnds(map, k - 1)}

\* the section graph has no cycle: no walk has as many choices as the story
\* has sections
IsAcyclic(map) == WalkEnds(map, Cardinality(DOMAIN map)) = {}

\* the visits of a section so far
SectionVisits == {i \in 1..Len(out) : out[i].ev \in {"prompt", "end"}}

\* the playthrough has ended and what ended it
EndedAt ==
    IF tpc = "crashed" THEN out[Len(out)].ev
    ELSE IF tpc = "done" THEN out[Len(out) - 1].ev
    ELSE "running"

\* C37: on a story whose section graph has no cycle every playthrough stops,
\* whatever the player selects: no section is visited twice, so that there
\* are at most as many visits as sections, and the loop ends at a section
\* without choices, at a target that names no section, or at Quit.
VisitsWithinSections ==
    IsAcyclic(textStory) =>
        /\ Cardinality(SectionVisits) <= Cardinality(DOMAIN textStory)
        /\ \A i, j \in SectionVisits : out[i].text = out[j].text => i = j
        /\ visits <= Cardinality(SectionVisits) + 1
        /\ visits < MaxVisits \/ tpc # "loop"

AcyclicStoryStops ==
    /\ []VisitsWithinSections
    /\ (tpc = "loop" /\ IsAcyclic(textStory)) ~>
            (EndedAt \in {"end", "missing", "error", "select"})

\* a playthrough that visited both sections of a story of two and ended at
\* the second, which offers no choice
BothSectionsThenEnd ==
    /\ tpc = "done"
    /\ IsAcyclic(textStory)
    /\ Cardinality(DOMAIN textStory) = 2
    /\ Cardinality(SectionVisits) = 2
    /\ EndedAt = "end"

-----------------------------------------------------------------------------
(* main: the replay command, properties *)

\* the command line is the replay command followed by one path
ReplayOf(av) == Len(av) = 2 /\ av[1] = "replay"

\* C38: the path given to the replay command reaches replay unchanged and is
\* the file read, whatever its extension: a save that is on disk and valid is
\* restored from.
ReplayReadsPathGiven ==
    (ReplayOf(argv) /\ cpc \notin {"parse", "dispatch"}) =>
        /\ args.file = argv[2]
        /\ Printed("restoring", argv[2])
        /\ Restorable(disk, argv[2]) => Printed("restored", argv[2])

-----------------------------------------------------------------------------
(* parseArgs: verbosity *)

\* the verbose flags an argument stands for, as the help text counts them
VerboseFlags(arg) ==
    CASE arg \in {"-v", "--verbose"} -> 1
      [] arg = "-vv" -> 2
      [] arg = "-vvv" -> 3
      [] OTHER -> 0

RECURSIVE VerboseFlagsGiven(_)
VerboseFlagsGiven(av) ==
    IF Len(av) = 0 THEN 0 ELSE VerboseFlags(Head(av)) + VerboseFlagsGiven(Tail(av))

\* C39: the verbosity level argument parsing produces is the number of
\* verbose flags given, -vv counting two and -vvv three.
VerbosityCountsFlags ==
    (cpc # "parse" /\ ~args.options.help /\ ~args.options.version) =>
        args.options.verbose = VerboseFlagsGiven(argv)

====
